---- MODULE Spec2Model ----
(***************************************************************************)
(* TradeWars 2025 multiplayer server: port pricing (game/world/port.py),   *)
(* galaxy generation and persistence (game/world/galaxy.py), stardock      *)
(* services (game/world/stardock.py) and the session / trade server        *)
(* (game/network/server.py).                                               *)
(***************************************************************************)
EXTENDS Integers, Sequences, FiniteSets, TLC

\* ------------------------------------------------------------------------
\* IEEE-754 binary64 arithmetic, as far as Port.update_prices uses it.
\* A natural number of arbitrary size is the sequence of its binary digits,
\* most significant first, without leading zeros (the empty sequence is 0).
\* ------------------------------------------------------------------------

Max(a, b) == IF a > b THEN a ELSE b
Min(a, b) == IF a < b THEN a ELSE b
Abs(n) == IF n < 0 THEN -n ELSE n

Zeros(k) == [i \in 1..k |-> 0]

RECURSIVE Bits(_)
Bits(n) ==
    IF n = 0 THEN <<>> ELSE Bits(n \div 2) \o <<n % 2>>

RECURSIVE BitsNat(_)
BitsNat(b) ==
    IF b = <<>> THEN 0 ELSE 2 * BitsNat(SubSeq(b, 1, Len(b) - 1)) + b[Len(b)]

\* b without its leading zeros
Strip(b) ==
    SubSeq(b, Len(b) + 1 - Cardinality({i \in 1..Len(b) : \E j \in 1..i : b[j] = 1}), Len(b))

\* the carry into digit i of a + b + carry, for digit sequences of the same
\* length: the nearest lower digit where a and b agree produces it, and the
\* incoming carry reaches digit i when they agree nowhere below it
CarryInto(a, b, carry, i) ==
    IF \A j \in (i + 1)..Len(a) : a[j] + b[j] = 1 THEN carry
    ELSE a[CHOOSE j \in (i + 1)..Len(a) :
              a[j] + b[j] # 1 /\ \A k \in (i + 1)..(j - 1) : a[k] + b[k] = 1]

\* a + b + carry for digit sequences of the same length; the result has one
\* more digit
AddBits(a, b, carry) ==
    <<CarryInto(a, b, carry, 0)>>
        \o [i \in 1..Len(a) |-> (a[i] + b[i] + CarryInto(a, b, carry, i)) % 2]

\* a - b for digit sequences of the same length with a >= b: a plus the
\* two's complement of b, without the carry out of the highest digit
SubBits(a, b) ==
    Tail(AddBits(a, [i \in 1..Len(b) |-> 1 - b[i]], 1))

\* a < b for digit sequences of the same length
LessBits(a, b) ==
    \E i \in 1..Len(a) : a[i] < b[i] /\ \A j \in 1..(i - 1) : a[j] = b[j]

\* a * k for a small factor k, for a digit sequence a that starts with as
\* many zeros as k has digits: by halving k
RECURSIVE MulBits(_, _)
MulBits(a, k) ==
    IF k = 0 THEN Zeros(Len(a))
    ELSE Tail(AddBits(Tail(MulBits(a, k \div 2)) \o <<0>>,
                      IF k % 2 = 1 THEN a ELSE Zeros(Len(a)), 0))

\* 2^k % d, by halving k
SquareMod(x, d) == (x * x) % d

RECURSIVE Pow2Mod(_, _)
Pow2Mod(k, d) ==
    IF k = 0 THEN 1 % d
    ELSE IF k % 2 = 1 THEN (2 * Pow2Mod(k - 1, d)) % d
    ELSE SquareMod(Pow2Mod(k \div 2, d), d)

\* (r * 2^k) % d: what the first k digits of r / d leave
DivRest(r, d, k) ==
    (r * Pow2Mod(k, d)) % d

\* the first k digits after the binary point of r / d, for 0 <= r < d
DivBits(r, d, k) ==
    [i \in 1..k |-> (2 * DivRest(r, d, i - 1)) \div d]

\* A binary64 value is (-1)^neg * m * 2^e with m of at most MantissaBits digits.
MantissaBits == 53

\* m * 2^e rounded to the nearest binary64, ties to even
RoundD(neg, m, e) ==
    IF Len(m) <= MantissaBits THEN [neg |-> neg /\ m # <<>>, m |-> m, e |-> e]
    ELSE [neg |-> neg,
          m   |-> IF /\ m[MantissaBits + 1] = 1
                     /\ \/ m[MantissaBits] = 1
                        \/ \E i \in (MantissaBits + 2)..Len(m) : m[i] = 1
                  THEN Strip(AddBits(SubSeq(m, 1, MantissaBits), Zeros(MantissaBits), 1))
                  ELSE SubSeq(m, 1, MantissaBits),
          e   |-> e + Len(m) - MantissaBits]

\* float(n) for a small integer n: exact
FloatOfInt(n) ==
    [neg |-> n < 0, m |-> Bits(Abs(n)), e |-> 0]

\* n / d for integers n and d > 0, correctly rounded: the quotient is taken
\* to GuardBits digits after the binary point, followed by one digit that
\* tells whether the division left a remainder
GuardBits == 70

FloatDiv(n, d) ==
    RoundD(n < 0,
           Strip(Bits(Abs(n) \div d) \o DivBits(Abs(n) % d, d, GuardBits)
                    \o <<IF DivRest(Abs(n) % d, d, GuardBits) = 0 THEN 0 ELSE 1>>),
           0 - (GuardBits + 1))

\* the sum of the values (-1)^xneg * a * 2^e and (-1)^yneg * b * 2^e, for
\* digit sequences a and b of the same length
AddAligned(xneg, a, yneg, b, e) ==
    IF xneg = yneg THEN RoundD(xneg, Strip(AddBits(a, b, 0)), e)
    ELSE IF LessBits(a, b) THEN RoundD(yneg, Strip(SubBits(b, a)), e)
    ELSE RoundD(xneg, Strip(SubBits(a, b)), e)

\* the digits of m * 2^(from - to), with leading zeros up to the length len
Aligned(m, from, to, len) ==
    Zeros(len - (Len(m) + from - to)) \o m \o Zeros(from - to)

\* x + y
FloatAdd(x, y) ==
    AddAligned(x.neg,
               Aligned(x.m, x.e, Min(x.e, y.e),
                       Max(Len(x.m) + x.e, Len(y.m) + y.e) - Min(x.e, y.e)),
               y.neg,
               Aligned(y.m, y.e, Min(x.e, y.e),
                       Max(Len(x.m) + x.e, Len(y.m) + y.e) - Min(x.e, y.e)),
               Min(x.e, y.e))

\* k * x for a small integer k >= 0
FloatMulInt(k, x) ==
    RoundD(x.neg, Strip(MulBits(Zeros(Len(Bits(k))) \o x.m, k)), x.e)

\* int(x): truncation toward zero
FloatToInt(x) ==
    (IF x.neg THEN -1 ELSE 1)
        * (IF x.e >= 0 THEN BitsNat(x.m \o Zeros(x.e))
           ELSE BitsNat(SubSeq(x.m, 1, Len(x.m) + x.e)))

\* ------------------------------------------------------------------------
\* game/world/port.py
\* ------------------------------------------------------------------------

COMMODITIES == {"fuel", "ore", "equipment"}

BASE_PRICES == [fuel |-> 10, ore |-> 25, equipment |-> 50]

PORT_TYPES ==
    [t \in 1..3 |->
        CASE t = 1 -> [fuel |-> "buy",  ore |-> "sell", equipment |-> "sell"]
          [] t = 2 -> [fuel |-> "sell", ore |-> "buy",  equipment |-> "sell"]
          [] t = 3 -> [fuel |-> "sell", ore |-> "sell", equipment |-> "buy"]]

\* the literal 0.6: the double nearest to 3/5
PointSix == FloatDiv(3, 5)

\* one iteration of the loop of Port.update_prices, in binary64 as Python
\* evaluates it: the divisions by 150.0, the sum and the product are each
\* rounded, int() truncates

ComputePrice(mode, c, level) ==
    Max(5, FloatToInt(FloatMulInt(BASE_PRICES[c],
               IF mode = "sell"
               THEN FloatAdd(PointSix, FloatDiv(100 - level, 150))
               ELSE FloatAdd(FloatOfInt(1), FloatDiv(level, 150)))))


\* Optional values: None is the empty sequence, a present value v is <<v>>.
None == <<>>
Some(v) == <<v>>
IsNone(o) == o = <<>>
Val(o) == o[1]

\* dict.get(key, default) on a record that may lack the key
Has(d, k) == k \in DOMAIN d
Get(d, k, default) == IF k \in DOMAIN d THEN d[k] ELSE default

\* Bound of the port model: how far below 0 and above 100 the commodity
\* levels handed to a constructor or found in a snapshot range
MaxLevelExcess == 50

LevelArgs == (0 - MaxLevelExcess)..(100 + MaxLevelExcess)

\* the prices of the levels of LevelArgs, tabulated once instead of being
\* recomputed in every state
PriceTable ==
    [mode \in {"buy", "sell"} |->
        [c \in COMMODITIES |->
            [level \in LevelArgs |-> ComputePrice(mode, c, level)]]]

CommodityPrice(mode, c, level) ==
    IF level \in LevelArgs
    THEN PriceTable[mode][c][level]
    ELSE ComputePrice(mode, c, level)

\* Port.update_prices: the prices it stores for a type and (possibly
\* partial) commodity levels; a missing level counts as 50
update_prices(type_id, commodity_levels) ==
    [c \in COMMODITIES |->
        CommodityPrice(PORT_TYPES[type_id][c], c, Get(commodity_levels, c, 50))]

Clamp(level) == Max(0, Min(100, level))

\* Outcomes of the random module that a Port construction consumes:
\* random_port_name(), random.choice(PORT_TYPES) and random.randint(20, 80)
\* per commodity.
PortNames == {"Rigel Station", "Sigma Depot"}
RandomLevels == {20, 50, 80}

PortDraws ==
    [name : PortNames, type_id : DOMAIN PORT_TYPES, levels : [COMMODITIES -> RandomLevels]]

\* Port(name, type_id, commodity_levels, prices) with __post_init__.
\* name and type_id are optional; commodity_levels is None (default factory)
\* or a possibly partial mapping; prices is a possibly partial mapping, empty
\* by default.  The constructor raises for a type_id outside PORT_TYPES.
PortRaises(type_id) ==
    ~IsNone(type_id) /\ Val(type_id) \notin DOMAIN PORT_TYPES

Port(name, type_id, commodity_levels, prices, rnd) ==
    LET n      == IF IsNone(name) THEN rnd.name ELSE Val(name)
        t      == IF IsNone(type_id) THEN rnd.type_id ELSE Val(type_id)
        given  == IF IsNone(commodity_levels) THEN rnd.levels ELSE Val(commodity_levels)
        p      == IF DOMAIN prices = {} THEN update_prices(t, given) ELSE prices
        levels == [c \in COMMODITIES |->
                      IF c \notin DOMAIN given THEN rnd.levels[c] ELSE Clamp(given[c])]
    IN  [name |-> n, type_id |-> t, commodity_levels |-> levels, prices |-> p]

\* Port.adjust_commodity_level for a known commodity
adjust_commodity_level(port, commodity, amount) ==
    LET levels == [port.commodity_levels EXCEPT
                      ![commodity] = Clamp(port.commodity_levels[commodity] + amount)]
    IN  [port EXCEPT !.commodity_levels = levels,
                     !.prices = update_prices(port.type_id, levels)]

\* Port.to_dict
Port_to_dict(port) ==
    [name |-> port.name, type_id |-> port.type_id,
     commodity_levels |-> port.commodity_levels, prices |-> port.prices]

\* Port.from_dict for a mapping data (keys may be missing; the values of
\* commodity_levels and prices are mappings from commodities to integers)
Port_from_dict(data, rnd) ==
    LET name    == IF Has(data, "name") THEN Some(data.name) ELSE None
        type0   == IF Has(data, "type_id") THEN Some(data.type_id) ELSE None
        type_id == IF ~IsNone(type0) /\ Val(type0) \notin DOMAIN PORT_TYPES THEN None ELSE type0
        port    == Port(name, type_id, None, <<>>, rnd)
        levels  == IF Has(data, "commodity_levels")
                   THEN [c \in COMMODITIES |->
                            IF c \in DOMAIN data.commodity_levels
                            THEN Clamp(data.commodity_levels[c])
                            ELSE rnd.levels[c]]
                   ELSE rnd.levels
        prices  == IF Has(data, "prices")
                   THEN [c \in COMMODITIES |->
                            IF c \in DOMAIN data.prices
                            THEN Max(1, data.prices[c])
                            ELSE BASE_PRICES[c]]
                   ELSE update_prices(port.type_id, levels)
    IN  [port EXCEPT !.commodity_levels = levels, !.prices = prices]

\* ------------------------------------------------------------------------
\* game/world/galaxy.py
\* ------------------------------------------------------------------------

\* Sector.__init__
Sector(sector_id) ==
    [id |-> sector_id, neighbors |-> <<>>, port |-> None, planet |-> None,
     is_stardock |-> FALSE]

\* Outcomes of the random module that Galaxy.__init__ consumes.  A draw d
\* gives, for a galaxy of a size, the list random.sample returns for every
\* sector in generate_warps (d.warps), the sectors random.sample returns in
\* generate_ports (d.port_sectors) and the draws of every Port() call
\* (d.ports).  The model samples these outcomes: every sector's list is a
\* cyclic window of the other sectors, of the same length and offset for all
\* sectors, and every Port() call of one generation draws the same values.
RECURSIVE SeqOfSet(_)
SeqOfSet(S) ==
    IF S = {} THEN <<>>
    ELSE LET m == CHOOSE a \in S : \A b \in S : a <= b
         IN  <<m>> \o SeqOfSet(S \ {m})

Others(size, i) == SeqOfSet((1..size) \ {i})

Window(pop, off, k) ==
    [j \in 1..k |-> pop[((off + j - 1) % Len(pop)) + 1]]

WarpDraws(size) ==
    {[i \in 1..size |-> Window(Others(size, i), off, Min(warp_count, size - 1))] :
        warp_count \in 2..4, off \in 0..Max(0, size - 2)}

\* port sectors sampled from every sector, the stardock sector included
PortSectorDraws_any_sector(size) ==
    LET port_count == Max(1, size \div 5)
    IN  {S \in SUBSET (1..size) : Cardinality(S) = Min(port_count, size)}

PortSectorDraws(size) ==
    LET available  == (1..size) \ {2}
        port_count == Max(1, size \div 5)
    IN  {S \in SUBSET available : Cardinality(S) = Min(port_count, Cardinality(available))}

UniformPortDraws ==
    {pd \in PortDraws : \A c \in COMMODITIES : pd.levels[c] = pd.levels["fuel"]}

GalaxyDraws(size) ==
    [warps : WarpDraws(size), port_sectors : PortSectorDraws(size),
     ports : {[i \in 1..size |-> pd] : pd \in UniformPortDraws}]

\* Galaxy.__init__(size): sectors 1..size, stardock in sector 2,
\* generate_warps, generate_ports, and the final removal of a port in sector 2
Galaxy(size, d) ==
    LET fresh   == [i \in 1..size |-> [Sector(i) EXCEPT !.is_stardock = (i = 2)]]
        warped  == [i \in 1..size |-> [fresh[i] EXCEPT !.neighbors = d.warps[i]]]
        ported  == [i \in 1..size |->
                       IF i \in d.port_sectors
                       THEN [warped[i] EXCEPT !.port = Some(Port(None, None, None, <<>>, d.ports[i]))]
                       ELSE warped[i]]
        checked == [i \in 1..size |->
                       IF i = 2 /\ ~IsNone(ported[i].port)
                       THEN [ported[i] EXCEPT !.port = None]
                       ELSE ported[i]]
    IN  [size |-> size, sectors |-> checked]

\* Sector.to_dict
Sector_to_dict(s) ==
    [id |-> s.id, neighbors |-> s.neighbors,
     port |-> IF IsNone(s.port) THEN None ELSE Some(Port_to_dict(Val(s.port))),
     planet |-> s.planet, stardock |-> s.is_stardock]

\* A sector record of a snapshot that is not a mapping
NotADict == [nondict |-> TRUE]

\* Sector.from_dict: raises ValueError for a record that is not a mapping
Sector_from_dict_raises(sec_data) ==
    Has(sec_data, "nondict")

\* a "neighbors" value that is no list, and a "port" value for which
\* Port.from_dict raises
NotAList == <<-1>>

Sector_from_dict(sec_data, sector_obj, rnd) ==
    LET neighbors == IF ~Has(sec_data, "neighbors") THEN sector_obj.neighbors
                     ELSE IF sec_data.neighbors = NotAList THEN <<>>
                     ELSE sec_data.neighbors
        planet    == IF Has(sec_data, "planet") THEN sec_data.planet ELSE sector_obj.planet
        portdoc   == Get(sec_data, "port", None)
        port      == IF ~IsNone(portdoc) /\ DOMAIN Val(portdoc) # {}
                     THEN IF Has(Val(portdoc), "nondict") THEN None
                          ELSE Some(Port_from_dict(Val(portdoc), rnd))
                     ELSE sector_obj.port
    IN  [sector_obj EXCEPT !.neighbors = neighbors, !.planet = planet, !.port = port,
                           !.is_stardock = Get(sec_data, "stardock", FALSE)]

\* Galaxy.to_dict
Galaxy_to_dict(g) ==
    [size |-> g.size, sectors |-> [sid \in DOMAIN g.sectors |-> Sector_to_dict(g.sectors[sid])]]

SetMax(S) == CHOOSE a \in S : \A b \in S : b <= a

\* the size Galaxy.from_dict builds the galaxy with
DocSize(data) ==
    IF Has(data, "size") THEN data.size
    ELSE IF DOMAIN Get(data, "sectors", <<>>) # {} THEN SetMax(DOMAIN data.sectors)
    ELSE 200

\* Galaxy.from_dict: a fresh Galaxy(size) whose sectors are then overwritten
\* from the records of the snapshot; a record that raises is skipped
\* a load that gives up at the first record it cannot read: the sectors
\* after it are not restored
Galaxy_from_dict_gives_up(data, d) ==
    LET g            == Galaxy(DocSize(data), d)
        sectors_data == Get(data, "sectors", <<>>)
        failed       == {i \in DOMAIN sectors_data : Sector_from_dict_raises(sectors_data[i])}
    IN  [g EXCEPT !.sectors =
            [i \in DOMAIN g.sectors |->
                IF i \in DOMAIN sectors_data /\ \A f \in failed : i < f
                THEN Sector_from_dict(sectors_data[i], g.sectors[i], d.ports[i])
                ELSE g.sectors[i]]]

Galaxy_from_dict(data, d) ==
    LET g            == Galaxy(DocSize(data), d)
        sectors_data == Get(data, "sectors", <<>>)
    IN  [g EXCEPT !.sectors =
            [i \in DOMAIN g.sectors |->
                IF i \in DOMAIN sectors_data /\ ~Sector_from_dict_raises(sectors_data[i])
                THEN Sector_from_dict(sectors_data[i], g.sectors[i], d.ports[i])
                ELSE g.sectors[i]]]

sector_exists(g, sid) == sid \in DOMAIN g.sectors

\* an adjacency that holds in both directions of a warp
is_adjacent_either_way(g, src, dst) ==
    /\ src \in DOMAIN g.sectors
    /\ \/ \E j \in DOMAIN g.sectors[src].neighbors : g.sectors[src].neighbors[j] = dst
       \/ /\ dst \in DOMAIN g.sectors
          /\ \E j \in DOMAIN g.sectors[dst].neighbors : g.sectors[dst].neighbors[j] = src

is_adjacent(g, src, dst) ==
    IF src \notin DOMAIN g.sectors THEN FALSE
    ELSE \E j \in DOMAIN g.sectors[src].neighbors : g.sectors[src].neighbors[j] = dst

\* Galaxy.serialize_sector
serialize_sector(g, sid) ==
    IF sid \notin DOMAIN g.sectors THEN <<>>
    ELSE LET s == g.sectors[sid]
         IN  [id |-> s.id, neighbors |-> s.neighbors,
              has_port |-> ~IsNone(s.port), has_planet |-> ~IsNone(s.planet),
              stardock |-> s.is_stardock,
              port_name |-> IF IsNone(s.port) THEN None ELSE Some(Val(s.port).name)]

\* ------------------------------------------------------------------------
\* Numbers of a decoded packet.  json.loads (packets.py, decode_packet)
\* yields Python ints, but also the float nan for the token NaN, and values
\* that are no numbers at all.  NaN and NotANumber stand for these two; every
\* other integer stands for itself.  Comparisons with nan are all false and
\* arithmetic with nan yields nan, as in Python.
\* ------------------------------------------------------------------------

NaN == -999999
NotANumber == -999998

PyLt(a, b) == a # NaN /\ b # NaN /\ a < b
PyLe(a, b) == a # NaN /\ b # NaN /\ a <= b
PyGt(a, b) == a # NaN /\ b # NaN /\ a > b
PyGe(a, b) == a # NaN /\ b # NaN /\ a >= b
PyAdd(a, b) == IF a = NaN \/ b = NaN THEN NaN ELSE a + b
PySub(a, b) == IF a = NaN \/ b = NaN THEN NaN ELSE a - b
PyMul(a, b) == IF a = NaN \/ b = NaN THEN NaN ELSE a * b

\* int(v): raises for nan and for a value that is no number
PyIntRaises(v) == v = NaN \/ v = NotANumber

\* ------------------------------------------------------------------------
\* game/world/stardock.py
\* ------------------------------------------------------------------------

HULL_REPAIR_COST == 150
HULL_REPAIR_AMOUNT == 10
SHIELD_UPGRADE_COST == 500
SHIELD_UPGRADE_AMOUNT == 5
CARGO_EXPANSION_COST == 5000
CARGO_EXPANSION_AMOUNT == 5
\* a house that lets rolls up to 60 win
GAMBLE_WIN_CHANCE_sixty == 50 + 10

GAMBLE_WIN_CHANCE == 50
GAMBLE_WIN_MULTIPLIER == 2
DRINK_COST == 10

\* _result
\* a result that reports the record with the shields down
DockResult_no_shields(success, message, player) ==
    [success |-> success, message |-> message,
     player_state |-> [player EXCEPT !.shields = 0]]

DockResult(success, message, player) ==
    [success |-> success, message |-> message, player_state |-> player]

\* the actions of stardock_process_action that read params["amount"]
AmountActions == {"BANK_DEPOSIT", "BANK_WITHDRAW", "RUSTY_GAMBLE"}

\* stardock_process_action raises TypeError when it compares an amount that
\* is not a number with 0
stardock_raises(action, params) ==
    action \in AmountActions /\ Get(params, "amount", 0) = NotANumber

\* stardock_process_action(action, params, player, galaxy); roll is the
\* outcome of random.randint(1, 100) in RUSTY_GAMBLE.  The message is the
\* text of the result without the interpolated numbers.
stardock_process_action(action, params, player, roll) ==
    LET amount == Get(params, "amount", 0)
    IN  CASE action = "REPAIR_HULL" ->
                IF player.hull >= 100
                THEN DockResult(FALSE, "Hull integrity at maximum. No repairs needed.", player)
                ELSE IF PyLt(player.credits, HULL_REPAIR_COST)
                THEN DockResult(FALSE, "Not enough credits. Hull repair costs", player)
                ELSE DockResult(TRUE, "Hull repaired",
                         [player EXCEPT !.credits = PySub(@, HULL_REPAIR_COST),
                                        !.hull = Min(player.hull + HULL_REPAIR_AMOUNT, 100)])
          [] action = "UPGRADE_SHIELDS" ->
                IF PyLt(player.credits, SHIELD_UPGRADE_COST)
                THEN DockResult(FALSE, "Insufficient credits. Shield upgrade costs", player)
                ELSE DockResult(TRUE, "Shield capacity increased",
                         [player EXCEPT !.credits = PySub(@, SHIELD_UPGRADE_COST),
                                        !.shields = @ + SHIELD_UPGRADE_AMOUNT])
          [] action = "EXPAND_CARGO" ->
                IF PyLt(player.credits, CARGO_EXPANSION_COST)
                THEN DockResult(FALSE, "Not enough credits. Cargo expansion costs", player)
                ELSE DockResult(TRUE, "Cargo holds expanded",
                         [player EXCEPT !.credits = PySub(@, CARGO_EXPANSION_COST),
                                        !.holds = @ + CARGO_EXPANSION_AMOUNT])
          [] action = "BANK_DEPOSIT" ->
                IF PyLe(amount, 0)
                THEN DockResult(FALSE, "Invalid deposit amount. Must be greater than 0.", player)
                ELSE IF PyLt(player.credits, amount)
                THEN DockResult(FALSE, "Insufficient credits.", player)
                ELSE DockResult(TRUE, "Deposited",
                         [player EXCEPT !.credits = PySub(@, amount),
                                        !.bank = PyAdd(@, amount)])
          [] action = "BANK_WITHDRAW" ->
                IF PyLe(amount, 0)
                THEN DockResult(FALSE, "Invalid withdrawal amount. Must be greater than 0.", player)
                ELSE IF PyLt(player.bank, amount)
                THEN DockResult(FALSE, "Insufficient bank balance.", player)
                ELSE DockResult(TRUE, "Withdrew",
                         [player EXCEPT !.bank = PySub(@, amount),
                                        !.credits = PyAdd(@, amount)])
          [] action = "BANK_BALANCE" ->
                DockResult(TRUE, "Account summary:", player)
          [] action = "RUSTY_RUMOR" ->
                DockResult(TRUE, "A hooded figure leans close and whispers...", player)
          [] action = "RUSTY_GAMBLE" ->
                IF PyLe(amount, 0)
                THEN DockResult(FALSE, "Invalid bet amount. Must be greater than 0.", player)
                ELSE IF PyLt(player.credits, amount)
                THEN DockResult(FALSE, "Not enough credits to gamble.", player)
                ELSE LET bet == [player EXCEPT !.credits = PySub(@, amount)]
                     IN  IF roll <= GAMBLE_WIN_CHANCE
                         THEN DockResult(TRUE, "YOU WON!",
                                  [bet EXCEPT !.credits = PyAdd(@, PyMul(amount, GAMBLE_WIN_MULTIPLIER))])
                         ELSE DockResult(FALSE, "You lost.", bet)
          [] action = "RUSTY_DRINKS" ->
                IF PyLt(player.credits, DRINK_COST)
                THEN DockResult(FALSE, "Not enough credits for a drink.", player)
                ELSE DockResult(TRUE, "You order a drink.",
                         [player EXCEPT !.credits = PySub(@, DRINK_COST)])
          [] action = "MARKET_BROWSE" ->
                DockResult(TRUE, "Market Promenade coming soon!", player)
          [] action = "TECH_BROWSE" ->
                DockResult(TRUE, "Tech Lab experimental mods coming soon!", player)
          [] OTHER ->
                DockResult(FALSE, "Unknown Stardock action", player)

\* ------------------------------------------------------------------------
\* game/network/packets.py
\* ------------------------------------------------------------------------

HEARTBEAT_PING == "HEARTBEAT_PING"
HEARTBEAT_PONG == "HEARTBEAT_PONG"

\* A Python object, by its type t and its value v.  t is one of "none",
\* "bool", "int", "str", "list", "tuple", "set" and "dict"; the value of a
\* list or a tuple is the sequence of its items, the value of a dict is the
\* sequence of its <<key, value>> pairs in insertion order.
Py(t, v) == [t |-> t, v |-> v]

PyNone == Py("none", <<>>)

\* dict.get(key) for a string key
DictGet(d, key) ==
    IF \E i \in DOMAIN d.v : d.v[i][1] = Py("str", key)
    THEN d.v[CHOOSE i \in DOMAIN d.v : d.v[i][1] = Py("str", key)][2]
    ELSE PyNone

\* A JSON text, by the document it spells: j is one of "null", "true",
\* "false", "number", "string", "array" and "object"; the value of an object
\* is the sequence of its <<name, value>> members as written, so a name can
\* occur twice.
Js(j, v) == [j |-> j, v |-> v]

\* what the wire carries: a JSON text, a text that is not JSON, or no text
Text(doc) == [k |-> "text", doc |-> doc]
NotJson == [k |-> "garbage"]
NotText == [k |-> "nontext"]

\* the outcome of a call: the exception it raises, or the value it returns
Raise(exc) == [raises |-> exc, value |-> <<>>]
Return(v) == [raises |-> "", value |-> <<v>>]

\* json.dumps raises TypeError for an object it has no encoding for and for
\* a dict key that is not a str, int, float, bool or None
RECURSIVE JsonSerializable(_)
JsonSerializable(o) ==
    CASE o.t \in {"none", "bool", "int", "str"} -> TRUE
      [] o.t \in {"list", "tuple"} -> \A i \in DOMAIN o.v : JsonSerializable(o.v[i])
      [] o.t = "dict" ->
            \A i \in DOMAIN o.v : /\ o.v[i][1].t \in {"none", "bool", "int", "str"}
                                  /\ JsonSerializable(o.v[i][2])
      [] OTHER -> FALSE

\* the name json.dumps writes for a dict key
JsonKey(key) ==
    CASE key.t = "str"  -> key.v
      [] key.t = "int"  -> ToString(key.v)
      [] key.t = "bool" -> IF key.v THEN "true" ELSE "false"
      [] key.t = "none" -> "null"

\* json.dumps(o): lists and tuples are both written as arrays, every dict key
\* is written as a string
RECURSIVE json_dumps(_)
json_dumps(o) ==
    CASE o.t = "none" -> Js("null", <<>>)
      [] o.t = "bool" -> Js(IF o.v THEN "true" ELSE "false", <<>>)
      [] o.t = "int"  -> Js("number", o.v)
      [] o.t = "str"  -> Js("string", o.v)
      [] o.t \in {"list", "tuple"} -> Js("array", [i \in DOMAIN o.v |-> json_dumps(o.v[i])])
      [] o.t = "dict" ->
            Js("object", [i \in DOMAIN o.v |-> <<JsonKey(o.v[i][1]), json_dumps(o.v[i][2])>>])

\* the members of a JSON object that json.loads keeps: a name takes the place
\* of its first occurrence and the value of its last one
FirstMembers(members) ==
    SeqOfSet({i \in DOMAIN members : \A k \in 1..(i - 1) : members[k][1] # members[i][1]})

LastMember(members, name) ==
    CHOOSE i \in DOMAIN members :
        /\ members[i][1] = name
        /\ \A k \in (i + 1)..Len(members) : members[k][1] # name

\* json.loads of a JSON text: arrays become lists, objects become dicts
RECURSIVE json_loads(_)
json_loads(doc) ==
    CASE doc.j = "null"   -> PyNone
      [] doc.j = "true"   -> Py("bool", TRUE)
      [] doc.j = "false"  -> Py("bool", FALSE)
      [] doc.j = "number" -> Py("int", doc.v)
      [] doc.j = "string" -> Py("str", doc.v)
      [] doc.j = "array"  -> Py("list", [i \in DOMAIN doc.v |-> json_loads(doc.v[i])])
      [] doc.j = "object" ->
            Py("dict", [n \in DOMAIN FirstMembers(doc.v) |->
                           <<Py("str", doc.v[FirstMembers(doc.v)[n]][1]),
                             json_loads(doc.v[LastMember(doc.v,
                                            doc.v[FirstMembers(doc.v)[n]][1])][2])>>])

encode_packet(packet_type, payload) ==
    IF packet_type.t # "str" \/ packet_type.v = "" THEN Raise("ValueError")
    ELSE IF payload.t # "dict" THEN Raise("ValueError")
    ELSE IF ~JsonSerializable(payload) THEN Raise("TypeError")
    ELSE Return(Text(json_dumps(Py("dict", <<<<Py("str", "type"), packet_type>>,
                                              <<Py("str", "payload"), payload>>>>))))

checked_packet_type_only(packet) ==
    IF packet.t # "dict" THEN Raise("ValueError")
    ELSE IF DictGet(packet, "type").t # "str" THEN Raise("ValueError")
    ELSE Return(packet)

\* the packet decode_packet returns once json.loads has given it
checked_packet(packet) ==
    IF packet.t # "dict" THEN Raise("ValueError")
    ELSE IF DictGet(packet, "type").t # "str" THEN Raise("ValueError")
    ELSE IF DictGet(packet, "payload").t # "dict" THEN Raise("ValueError")
    ELSE Return(packet)

decode_packet(raw_json) ==
    IF raw_json.k # "text" THEN Raise("ValueError")
    ELSE checked_packet(json_loads(raw_json.doc))

is_heartbeat(packet_dict) ==
    DictGet(packet_dict, "type") \in {Py("str", HEARTBEAT_PING), Py("str", HEARTBEAT_PONG)}

\* ------------------------------------------------------------------------
\* game/network/server.py
\* ------------------------------------------------------------------------

VARIABLES
    galaxy,             \* the Galaxy object of the process
    galaxy_file,        \* saves/galaxy.json: None or a galaxy snapshot
    connected_players,  \* registry: ids of the players with a live connection
    player_state,       \* player id -> player record
    players_file,       \* saves/players.json: player id -> player record
    next_id,            \* next value of _player_id_counter
    sent,               \* packets sent while handling the last event, in order
    handled,            \* number of events handled so far, connects apart
    port,               \* a Port object outside a galaxy (None: none built yet)
    wire,               \* the packet codec at work: None, or the last call and its result
    links,              \* connection id -> state of its socket and of its handler, where
                        \* sockets can fail (empty where every send succeeds)
    tasks               \* the asyncio tasks: state of main and of the autosave task, and
                        \* connection id -> statements its suspended handler has left

vars == <<galaxy, galaxy_file, connected_players, player_state, players_file,
          next_id, sent, handled, port, wire, links, tasks>>

\* the tasks of a serving process where every handler runs a message to its
\* end before the next event: main serves, the autosave task sleeps, no
\* handler is suspended
Serving == [main |-> "serving", autosave |-> "sleeping", handlers |-> <<>>]

START_SECTOR == 1
STARDOCK_SECTOR == 2

\* a starting state with a damaged hull
DefaultPlayer_damaged ==
    [sector |-> START_SECTOR, credits |-> 1000, holds |-> 100,
     cargo |-> [fuel |-> 0, ore |-> 0, equipment |-> 0],
     hull |-> 90, shields |-> 10, bank |-> 0]

\* a starting record one sector before the first
DefaultPlayer_before_first ==
    [sector |-> START_SECTOR - 1, credits |-> 1000, holds |-> 100,
     cargo |-> [fuel |-> 0, ore |-> 0, equipment |-> 0],
     hull |-> 100, shields |-> 10, bank |-> 0]

\* the record handle_connection seeds for a new session
DefaultPlayer ==
    [sector |-> START_SECTOR, credits |-> 1000, holds |-> 100,
     cargo |-> [fuel |-> 0, ore |-> 0, equipment |-> 0],
     hull |-> 100, shields |-> 10, bank |-> 0]

\* Bounds of the server model: player ids handed out, events handled
\* (connections, packets, closed connections, autosave rounds), galaxy size
MaxPlayerId == 2
MaxEvents == 3
ServerGalaxySize == 4

Packet(to, type, payload) == [to |-> to, type |-> type, payload |-> payload]

\* ws.send(packet) to one connection
Unicast(to, type, payload) == <<Packet(to, type, payload)>>

\* a broadcast that gives up at the first send that fails
broadcast_until_failure(registry, type, payload) ==
    LET order == SeqOfSet(registry)
    IN  [i \in {k \in 1..Len(order) : \A j \in 1..(k - 1) : links[order[j]] = "open"}
            |-> Packet(order[i], type, payload)]

\* a broadcast that reaches only the first connection of the registry
broadcast_first_only(registry, type, payload) ==
    IF registry = {} THEN <<>>
    ELSE Unicast(CHOOSE p \in registry : \A q \in registry : p <= q, type, payload)

\* broadcast: one send per registered connection
broadcast(registry, type, payload) ==
    LET order == SeqOfSet(registry)
    IN  [i \in 1..Len(order) |-> Packet(order[i], type, payload)]

Remove(f, k) == [x \in DOMAIN f \ {k} |-> f[x]]

Put(f, k, v) == [x \in DOMAIN f \cup {k} |-> IF x = k THEN v ELSE f[x]]

_get_sector(g, sector_id) ==
    IF sector_id \in DOMAIN g.sectors THEN Some(g.sectors[sector_id]) ELSE None

SumCargo(cargo) ==
    LET RECURSIVE Sum(_)
        Sum(S) == IF S = {} THEN 0
                  ELSE LET c == CHOOSE c \in S : TRUE IN cargo[c] + Sum(S \ {c})
    IN  Sum(DOMAIN cargo)

\* the message of a trade result: its text and the values interpolated in it
TradeMsg(text, good, amount, total) ==
    [text |-> text, good |-> good, amount |-> amount, total |-> total]

TradeResult(success, message, state, portdoc) ==
    [success |-> success, message |-> message, player_state |-> state, port |-> portdoc]

\* the BUY branch of _do_trade with the two tests in the other order
_do_trade_BUY_funds_first(st, good, amount, price_per, portdoc) ==
    LET total == price_per * amount
    IN  IF PyGt(total, st.credits)
        THEN TradeResult(FALSE, TradeMsg("Not enough credits.", "", 0, 0), st, portdoc)
        ELSE IF SumCargo(st.cargo) + amount > st.holds
        THEN TradeResult(FALSE, TradeMsg("Not enough cargo space.", "", 0, 0), st, portdoc)
        ELSE TradeResult(TRUE, TradeMsg("Bought", good, amount, total),
                 [st EXCEPT !.credits = PySub(st.credits, total),
                            !.cargo[good] = st.cargo[good] + amount],
                 portdoc)

\* the BUY branch of _do_trade: capacity, then funds, then the purchase
_do_trade_BUY(st, good, amount, price_per, portdoc) ==
    LET total == price_per * amount
    IN  IF SumCargo(st.cargo) + amount > st.holds
        THEN TradeResult(FALSE, TradeMsg("Not enough cargo space.", "", 0, 0), st, portdoc)
        ELSE IF PyGt(total, st.credits)
        THEN TradeResult(FALSE, TradeMsg("Not enough credits.", "", 0, 0), st, portdoc)
        ELSE TradeResult(TRUE, TradeMsg("Bought", good, amount, total),
                 [st EXCEPT !.credits = PySub(st.credits, total),
                            !.cargo[good] = st.cargo[good] + amount],
                 portdoc)

\* the SELL branch of _do_trade refusing to sell all of a commodity
_do_trade_SELL_keeps_one(st, good, amount, price_per, portdoc) ==
    LET total == price_per * amount
    IN  IF st.cargo[good] <= amount
        THEN TradeResult(FALSE, TradeMsg("Not enough to sell.", good, 0, 0), st, portdoc)
        ELSE TradeResult(TRUE, TradeMsg("Sold", good, amount, total),
                 [st EXCEPT !.cargo[good] = st.cargo[good] - amount,
                            !.credits = PyAdd(st.credits, total)],
                 portdoc)

\* the SELL branch of _do_trade at a port that pays one credit less per unit
\* than it charges, as a port whose stock a purchase had moved would
_do_trade_SELL_marked_down(st, good, amount, price_per, portdoc) ==
    LET total == (price_per - 1) * amount
    IN  IF st.cargo[good] < amount
        THEN TradeResult(FALSE, TradeMsg("Not enough to sell.", good, 0, 0), st, portdoc)
        ELSE TradeResult(TRUE, TradeMsg("Sold", good, amount, total),
                 [st EXCEPT !.cargo[good] = st.cargo[good] - amount,
                            !.credits = PyAdd(st.credits, total)],
                 portdoc)

\* the SELL branch of _do_trade
_do_trade_SELL(st, good, amount, price_per, portdoc) ==
    LET total == price_per * amount
    IN  IF st.cargo[good] < amount
        THEN TradeResult(FALSE, TradeMsg("Not enough to sell.", good, 0, 0), st, portdoc)
        ELSE TradeResult(TRUE, TradeMsg("Sold", good, amount, total),
                 [st EXCEPT !.cargo[good] = st.cargo[good] - amount,
                            !.credits = PyAdd(st.credits, total)],
                 portdoc)

\* _do_trade that takes INFO for every action name it does not know
_do_trade_lenient(g, state, action, good, amount) ==
    LET sector == _get_sector(g, state.sector)
    IN  IF IsNone(sector) \/ IsNone(Val(sector).port)
        THEN TradeResult(FALSE, TradeMsg("No port in this sector.", "", 0, 0), state, None)
        ELSE
        LET p       == Val(Val(sector).port)
            portdoc == Some(Port_to_dict(p))
        IN  IF good \notin DOMAIN p.prices
            THEN TradeResult(FALSE, TradeMsg("Port does not trade", good, 0, 0), state, portdoc)
            ELSE
            LET st == [state EXCEPT !.cargo = IF good \in DOMAIN state.cargo THEN state.cargo
                                              ELSE Put(state.cargo, good, 0)]
            IN  IF amount <= 0
                THEN TradeResult(FALSE, TradeMsg("Amount must be positive.", "", 0, 0), st, portdoc)
                ELSE IF action = "BUY"
                THEN _do_trade_BUY(st, good, amount, p.prices[good], portdoc)
                ELSE IF action = "SELL"
                THEN _do_trade_SELL(st, good, amount, p.prices[good], portdoc)
                ELSE TradeResult(TRUE, TradeMsg("Port info.", "", 0, 0), st, portdoc)

\* _do_trade on the record state of the player: the payload it returns; the
\* player_state field of the payload is the record as the call leaves it
\* (setdefault adds the cargo entry of a priced good the record lacks)
_do_trade(g, state, action, good, amount) ==
    LET sector == _get_sector(g, state.sector)
    IN  IF IsNone(sector) \/ IsNone(Val(sector).port)
        THEN TradeResult(FALSE, TradeMsg("No port in this sector.", "", 0, 0), state, None)
        ELSE
        LET p       == Val(Val(sector).port)
            portdoc == Some(Port_to_dict(p))
        IN  IF good \notin DOMAIN p.prices
            THEN TradeResult(FALSE, TradeMsg("Port does not trade", good, 0, 0), state, portdoc)
            ELSE
            LET st == [state EXCEPT !.cargo = IF good \in DOMAIN state.cargo THEN state.cargo
                                              ELSE Put(state.cargo, good, 0)]
            IN  IF amount <= 0
                THEN TradeResult(FALSE, TradeMsg("Amount must be positive.", "", 0, 0), st, portdoc)
                ELSE IF action = "INFO"
                THEN TradeResult(TRUE, TradeMsg("Port info.", "", 0, 0), st, portdoc)
                ELSE IF action = "BUY"
                THEN _do_trade_BUY(st, good, amount, p.prices[good], portdoc)
                ELSE IF action = "SELL"
                THEN _do_trade_SELL(st, good, amount, p.prices[good], portdoc)
                ELSE TradeResult(FALSE, TradeMsg("Unknown trade action", action, 0, 0), st, portdoc)

\* Inbound payloads.  str.upper, str.lower and str.strip are given on the
\* strings that occur in them.
TradeActionInputs == {"INFO", "buy", "SELL", "SCRAP"}
GoodInputs == {"fuel", "Ore", "gold"}
TradeAmountInputs == {-1, 0, 2, 60, NotANumber}

PyUpper(s) == IF s = "buy" THEN "BUY" ELSE s
PyLower(s) == IF s = "Ore" THEN "ore" ELSE s
PyStrip(s) == IF s = " RUSTY_DRINKS " THEN "RUSTY_DRINKS" ELSE s

\* every action and good with the amounts 2 and 60, the other amounts with one
\* action and good, and the payload without any key
TradePayloads ==
    {pl \in [action : TradeActionInputs, good : GoodInputs, amount : TradeAmountInputs] :
        pl.amount \in {2, 60} \/ (pl.action = "buy" /\ pl.good = "fuel")}
        \cup {<<>>}

DockMenuInputs == {"0", "1", "2", "3", "4", "5"}

DockActionInputs ==
    {"REPAIR_HULL", "UPGRADE_SHIELDS", "EXPAND_CARGO", "BANK_BALANCE", "RUSTY_RUMOR",
     " RUSTY_DRINKS ", "MARKET_BROWSE", "TECH_BROWSE", "WARP_CORE", "0", "3"}

DockAmountInputs == {600, NaN, NotANumber}

DockPayloads ==
    [action : DockActionInputs]
        \cup [action : AmountActions, amount : DockAmountInputs]
        \cup [action : AmountActions]

RollInputs == {50, 51}

ChatInputs == {"hello"}

\* What handling one event leaves behind: the registry, the player records,
\* the player snapshot on disk and the packets sent, in order.
Outcome(registry, states, file, out) ==
    [connected_players |-> registry, player_state |-> states,
     players_file |-> file, sent |-> out]

\* an event that only sends packets
Reply(out) == Outcome(connected_players, player_state, players_file, out)

\* an event that changes the record of p and calls save_players
Saved(states, out) == Outcome(connected_players, states, states, out)

\* a finally block that ends every session: it empties the registry and the
\* player-state mapping
HandleClose_ends_all(p) ==
    Outcome({}, <<>>, <<>>, <<>>)

\* the finally block of handle_connection
HandleClose(p) ==
    LET registry == connected_players \ {p}
        states   == Remove(player_state, p)
    IN  Outcome(registry, states, states,
                broadcast(registry, "PLAYER_DISCONNECT", [player_id |-> p]))

\* HandleConnect with the announcement made before the connection is registered
HandleConnect_announce_first(player_id) ==
    LET registry == connected_players \cup {player_id}
        states   == Put(player_state, player_id, DefaultPlayer)
    IN  Outcome(registry, states, players_file,
                broadcast(connected_players, "PLAYER_CONNECT", [player_id |-> player_id])
                  \o Unicast(player_id, "SECTOR_UPDATE",
                         [player_id |-> player_id, state |-> states[player_id],
                          sector_data |-> serialize_sector(galaxy, START_SECTOR)]))

\* handle_connection up to the message loop, for the id the counter hands out
HandleConnect(player_id) ==
    LET registry == connected_players \cup {player_id}
        states   == Put(player_state, player_id, DefaultPlayer)
    IN  Outcome(registry, states, players_file,
                broadcast(registry, "PLAYER_CONNECT", [player_id |-> player_id])
                  \o Unicast(player_id, "SECTOR_UPDATE",
                         [player_id |-> player_id, state |-> states[player_id],
                          sector_data |-> serialize_sector(galaxy, START_SECTOR)]))

\* a heartbeat whose answer goes to every connection
HandleHeartbeat_broadcast(p) == Reply(broadcast(connected_players, "HEARTBEAT_PONG", <<>>))

\* HEARTBEAT_PING or HEARTBEAT_PONG
HandleHeartbeat(p) == Reply(Unicast(p, "HEARTBEAT_PONG", <<>>))

\* a JSON list or object where a sector id is expected: it cannot be hashed
Unhashable == -999997

\* HandleMove with the two lookups in the other order
HandleMove_adjacency_first(p, requested) ==
    LET current == player_state[p].sector
    IN  IF IsNone(requested)
        THEN Reply(Unicast(p, "MOVE_REJECT", [reason |-> "No sector given."]))
        ELSE IF Val(requested) = Unhashable
        THEN HandleClose(p)
        ELSE IF ~is_adjacent(galaxy, current, Val(requested))
        THEN Reply(Unicast(p, "MOVE_REJECT", [reason |-> "Sector not adjacent."]))
        ELSE IF ~sector_exists(galaxy, Val(requested))
        THEN Reply(Unicast(p, "MOVE_REJECT", [reason |-> "Sector does not exist."]))
        ELSE LET states == [player_state EXCEPT ![p].sector = Val(requested)]
             IN  Saved(states,
                       broadcast(connected_players, "SECTOR_UPDATE",
                           [player_id |-> p, state |-> states[p],
                            sector_data |-> serialize_sector(galaxy, Val(requested))]))

\* PLAYER_MOVE with payload.get("sector") = requested (None: no sector given);
\* the membership test of sector_exists raises TypeError on an unhashable value
HandleMove(p, requested) ==
    LET current == player_state[p].sector
    IN  IF IsNone(requested)
        THEN Reply(Unicast(p, "MOVE_REJECT", [reason |-> "No sector given."]))
        ELSE IF Val(requested) = Unhashable
        THEN HandleClose(p)
        ELSE IF ~sector_exists(galaxy, Val(requested))
        THEN Reply(Unicast(p, "MOVE_REJECT", [reason |-> "Sector does not exist."]))
        ELSE IF ~is_adjacent(galaxy, current, Val(requested))
        THEN Reply(Unicast(p, "MOVE_REJECT", [reason |-> "Sector not adjacent."]))
        ELSE LET states == [player_state EXCEPT ![p].sector = Val(requested)]
             IN  Saved(states,
                       broadcast(connected_players, "SECTOR_UPDATE",
                           [player_id |-> p, state |-> states[p],
                            sector_data |-> serialize_sector(galaxy, Val(requested))]))

\* CHAT_MESSAGE
HandleChat(p, msg) ==
    Reply(broadcast(connected_players, "CHAT_MESSAGE", [player_id |-> p, message |-> msg]))

\* PORT_TRADE: int() of a value that is no number raises, and the exception
\* ends the message loop
HandleTrade(p, payload) ==
    LET action == PyUpper(Get(payload, "action", ""))
        good   == PyLower(Get(payload, "good", ""))
        raw    == Get(payload, "amount", 0)
    IN  IF PyIntRaises(raw)
        THEN HandleClose(p)
        ELSE LET result == _do_trade(galaxy, player_state[p], action, good, raw)
             IN  Saved([player_state EXCEPT ![p] = result.player_state],
                       Unicast(p, "TRADE_RESULT", result))

\* SCAN_REQUEST with payload.get("sector") = target
HandleScan(p, target) ==
    LET current == player_state[p].sector
        t       == IF IsNone(target) THEN current ELSE Val(target)
    IN  IF ~sector_exists(galaxy, t)
        THEN Reply(Unicast(p, "SCAN_RESULT",
                       [success |-> FALSE, message |-> "Sector does not exist."]))
        ELSE IF t # current /\ ~is_adjacent(galaxy, current, t)
        THEN Reply(Unicast(p, "SCAN_RESULT",
                       [success |-> FALSE, message |-> "Sector not adjacent."]))
        ELSE Reply(Unicast(p, "SCAN_RESULT",
                       [success |-> TRUE, sector |-> t, data |-> serialize_sector(galaxy, t)]))

_sector_is_stardock(g, sector_id) ==
    ~IsNone(_get_sector(g, sector_id)) /\ Val(_get_sector(g, sector_id)).is_stardock

\* DOCK_REQUEST
HandleDockRequest(p) ==
    IF ~_sector_is_stardock(galaxy, player_state[p].sector)
    THEN Reply(Unicast(p, "DOCK_RESULT",
                   [success |-> FALSE, message |-> "No Stardock in this sector."]))
    ELSE Reply(Unicast(p, "DOCK_RESULT", [success |-> TRUE, menu |-> "STARDOCK_MENU"]))

\* DOCK_ACTION: a menu digit is answered by _handle_dock_action, every other
\* action goes to stardock_process_action; save_players only on success
HandleDockAction(p, payload, roll) ==
    LET action == PyStrip(Get(payload, "action", ""))
    IN  IF action \in DockMenuInputs
        THEN IF action = "0"
             THEN Reply(Unicast(p, "DOCK_RESULT",
                            [success |-> FALSE, message |-> "You undock", exit |-> TRUE]))
             ELSE Reply(Unicast(p, "DOCK_ACTION",
                            [message |-> action, menu |-> "STARDOCK_MENU"]))
        ELSE IF stardock_raises(action, payload)
        THEN HandleClose(p)
        ELSE LET result == stardock_process_action(action, payload, player_state[p], roll)
                 states == [player_state EXCEPT ![p] = result.player_state]
             IN  Outcome(connected_players, states,
                         IF result.success THEN states ELSE players_file,
                         Unicast(p, "DOCK_ACTION", result))

\* the event is handled: its outcome becomes the state of the server
Handled(o) ==
    /\ connected_players' = o.connected_players
    /\ player_state' = o.player_state
    /\ players_file' = o.players_file
    /\ sent' = o.sent

\* one more event within the bound
Event ==
    /\ handled < MaxEvents
    /\ handled' = handled + 1

Connect ==
    /\ Event
    /\ next_id <= MaxPlayerId
    /\ Handled(HandleConnect(next_id))
    /\ next_id' = next_id + 1
    /\ UNCHANGED <<galaxy, galaxy_file, port, wire, links, tasks>>

\* the connection of p closes: websockets.ConnectionClosed ends the loop
Disconnect(p) ==
    /\ Event
    /\ Handled(HandleClose(p))
    /\ UNCHANGED <<galaxy, galaxy_file, next_id, port, wire, links, tasks>>

\* a message that decode_packet rejects: ValueError ends the loop
MalformedPacket(p) ==
    /\ Event
    /\ Handled(HandleClose(p))
    /\ UNCHANGED <<galaxy, galaxy_file, next_id, port, wire, links, tasks>>

Heartbeat(p) ==
    /\ Event
    /\ Handled(HandleHeartbeat(p))
    /\ UNCHANGED <<galaxy, galaxy_file, next_id, port, wire, links, tasks>>

Move(p, requested) ==
    /\ Event
    /\ Handled(HandleMove(p, requested))
    /\ UNCHANGED <<galaxy, galaxy_file, next_id, port, wire, links, tasks>>

Chat(p, msg) ==
    /\ Event
    /\ Handled(HandleChat(p, msg))
    /\ UNCHANGED <<galaxy, galaxy_file, next_id, port, wire, links, tasks>>

Trade(p, payload) ==
    /\ Event
    /\ Handled(HandleTrade(p, payload))
    /\ UNCHANGED <<galaxy, galaxy_file, next_id, port, wire, links, tasks>>

Scan(p, target) ==
    /\ Event
    /\ Handled(HandleScan(p, target))
    /\ UNCHANGED <<galaxy, galaxy_file, next_id, port, wire, links, tasks>>

DockRequest(p) ==
    /\ Event
    /\ Handled(HandleDockRequest(p))
    /\ UNCHANGED <<galaxy, galaxy_file, next_id, port, wire, links, tasks>>

DockAction(p, in) ==
    /\ Event
    /\ Handled(HandleDockAction(p, in.payload, in.roll))
    /\ UNCHANGED <<galaxy, galaxy_file, next_id, port, wire, links, tasks>>

\* a well-formed packet of a type the loop has no branch for
UnhandledPacket(p) ==
    /\ Event
    /\ Handled(Reply(<<>>))
    /\ UNCHANGED <<galaxy, galaxy_file, next_id, port, wire, links, tasks>>

\* one round of autosave_loop
Autosave ==
    /\ Event
    /\ galaxy_file' = Some(Galaxy_to_dict(galaxy))
    /\ Handled(Outcome(connected_players, player_state, player_state, <<>>))
    /\ UNCHANGED <<galaxy, next_id, port, wire, links, tasks>>

\* Inputs of the message loop
MoveInputs == {None, Some(Unhashable)} \cup {Some(s) : s \in 1..(ServerGalaxySize + 1)}

ScanInputs == {None} \cup {Some(s) : s \in {STARDOCK_SECTOR, ServerGalaxySize, ServerGalaxySize + 1}}

\* the roll only matters to RUSTY_GAMBLE
DockInputs ==
    {in \in [payload : DockPayloads, roll : RollInputs] :
        in.roll = GAMBLE_WIN_CHANCE \/ Get(in.payload, "action", "") = "RUSTY_GAMBLE"}

\* Module initialisation of server.py: no saved galaxy (a fresh one is
\* generated, at the size of the model instead of 200), and the player
\* snapshot is empty or holds the record of an earlier session.
ServerDraws ==
    {d \in GalaxyDraws(ServerGalaxySize) :
        /\ d.warps[1] = <<2, 3>>
        /\ d.port_sectors = {1}
        /\ d.ports[1] = [name |-> "Rigel Station", type_id |-> 2,
                         levels |-> [c \in COMMODITIES |-> 50]]}

PlayerSaves ==
    {<<>>, [i \in {1} |-> [DefaultPlayer EXCEPT !.credits = 400, !.bank = 600]]}

\* a counter that starts at 1 whatever the snapshot holds
MaxLoadedId_ignored(state) == 0

MaxLoadedId(state) ==
    IF DOMAIN state = {} THEN 0 ELSE SetMax(DOMAIN state)

\* A snapshot file as the server finds it when it starts: absent, or holding
\* a text that is a JSON document or is not one (a truncated write).
Missing == [exists |-> FALSE, text |-> NotJson]

OnDisk(text) == [exists |-> TRUE, text |-> text]

Corrupt == OnDisk(NotJson)

json_load(f) ==
    IF f.text.k = "text" THEN Return(f.text.doc) ELSE Raise("JSONDecodeError")

load_galaxy(f, d) ==
    IF ~f.exists THEN Return(Galaxy(ServerGalaxySize, d))
    ELSE IF json_load(f).raises # "" THEN json_load(f)
    ELSE Return(Galaxy_from_dict(Val(json_load(f).value), d))

load_players(f) ==
    IF ~f.exists THEN Return(<<>>) ELSE json_load(f)

PlayerFiles == {Missing, Corrupt} \cup {OnDisk(Text(state)) : state \in PlayerSaves}

\* the module is initialised only if neither load raises
Init ==
    /\ galaxy_file = None
    /\ \E d \in ServerDraws : galaxy = Val(load_galaxy(Missing, d).value)
    /\ \E f \in PlayerFiles :
          /\ load_players(f).raises = ""
          /\ player_state = Val(load_players(f).value)
    /\ players_file = player_state
    /\ connected_players = {}
    /\ next_id = MaxLoadedId(player_state) + 1
    /\ sent = <<>>
    /\ handled = 0
    /\ wire = None
    /\ links = <<>>
    /\ tasks = Serving
    /\ port = None

Next ==
    \/ Connect
    \/ \E p \in connected_players : Disconnect(p)
    \/ \E p \in connected_players : MalformedPacket(p)
    \/ \E p \in connected_players : Heartbeat(p)
    \/ \E p \in connected_players, requested \in MoveInputs : Move(p, requested)
    \/ \E p \in connected_players, msg \in ChatInputs : Chat(p, msg)
    \/ \E p \in connected_players, payload \in TradePayloads : Trade(p, payload)
    \/ \E p \in connected_players, target \in ScanInputs : Scan(p, target)
    \/ \E p \in connected_players : DockRequest(p)
    \/ \E p \in connected_players, in \in DockInputs : DockAction(p, in)
    \/ \E p \in connected_players : UnhandledPacket(p)
    \/ Autosave

Spec == Init /\ [][Next]_vars

-----------------------------------------------------------------------------
\* Ports on their own: a port is constructed, restored from a snapshot or
\* adjusted, outside any galaxy.  The variable port holds the port object,
\* handled counts the operations, the server does nothing.

MaxPortOps == 2

Idle ==
    /\ galaxy_file = None
    /\ connected_players = {}
    /\ player_state = <<>>
    /\ players_file = <<>>
    /\ next_id = 1
    /\ sent = <<>>
    /\ handled = 0
    /\ wire = None
    /\ links = <<>>
    /\ tasks = Serving

\* the draws of the random module in the port model
PortSpecDraws == {pd \in UniformPortDraws : pd.name = "Sigma Depot"}

UniformLevels(level) == [c \in COMMODITIES |-> level]

\* commodity_levels arguments: absent, every level of LevelArgs for all
\* commodities, and mappings that lack commodities
LevelInputs ==
    {None} \cup {Some(UniformLevels(level)) : level \in LevelArgs}
           \cup {Some([fuel |-> 30]), Some([ore |-> 70, equipment |-> 110])}

TypeInputs == {None} \cup {Some(t) : t \in 1..4}

\* the port object is made by Port(...), the prices left to __post_init__
NewPort(name, type_id, commodity_levels, rnd) ==
    /\ handled < MaxPortOps
    /\ handled' = handled + 1
    /\ ~PortRaises(type_id)
    /\ port' = Some(Port(name, type_id, commodity_levels, <<>>, rnd))
    /\ UNCHANGED <<galaxy, galaxy_file, connected_players, player_state, players_file,
                   next_id, sent, wire, links, tasks>>

AdjustInputs == {-30, 10, 200}

\* port.adjust_commodity_level(commodity, amount)
AdjustLevel(commodity, amount) ==
    /\ handled < MaxPortOps
    /\ handled' = handled + 1
    /\ ~IsNone(port)
    /\ port' = Some(adjust_commodity_level(Val(port), commodity, amount))
    /\ UNCHANGED <<galaxy, galaxy_file, connected_players, player_state, players_file,
                   next_id, sent, wire, links, tasks>>

Restrict(f, S) == [x \in DOMAIN f \cap S |-> f[x]]

\* Snapshots a port is restored from: the snapshot to_dict gives of the
\* current port, that snapshot with keys or commodities missing, and
\* snapshots written by hand
PortDocs ==
    (IF IsNone(port) THEN {}
     ELSE LET doc == Port_to_dict(Val(port))
          IN  {doc,
               Restrict(doc, {"name", "type_id", "commodity_levels"}),
               Restrict(doc, {"name", "type_id", "prices"}),
               [doc EXCEPT !.prices = Restrict(doc.prices, {"fuel"})],
               [doc EXCEPT !.commodity_levels = Restrict(doc.commodity_levels, {"ore"})]})
    \cup {[type_id |-> 7],
          [name |-> "Rigel Station", type_id |-> 1,
           commodity_levels |-> UniformLevels(100 + MaxLevelExcess)],
          [name |-> "Rigel Station", type_id |-> 3,
           commodity_levels |-> UniformLevels(40), prices |-> UniformLevels(0)]}

\* Port.from_dict(data)
RestorePort(data, rnd) ==
    /\ handled < MaxPortOps
    /\ handled' = handled + 1
    /\ port' = Some(Port_from_dict(data, rnd))
    /\ UNCHANGED <<galaxy, galaxy_file, connected_players, player_state, players_file,
                   next_id, sent, wire, links, tasks>>

InitPort ==
    /\ Idle
    /\ galaxy = Galaxy(ServerGalaxySize, CHOOSE d \in ServerDraws : TRUE)
    /\ port = None

NextPort ==
    \/ /\ IsNone(port)
       /\ \E name \in {None, Some("Rigel Station")}, type_id \in TypeInputs,
             commodity_levels \in LevelInputs, rnd \in PortSpecDraws :
             NewPort(name, type_id, commodity_levels, rnd)
    \/ \E commodity \in COMMODITIES, amount \in AdjustInputs : AdjustLevel(commodity, amount)
    \/ \E data \in PortDocs, rnd \in PortSpecDraws : RestorePort(data, rnd)

SpecPort == InitPort /\ [][NextPort]_vars

\* ------------------------------------------------------------------------
\* The galaxy on its own (game/world/galaxy.py): a galaxy is generated,
\* written to a snapshot with to_dict, the snapshot loses parts of sector
\* records, and a galaxy is restored from it with from_dict.
\* ------------------------------------------------------------------------

\* Bounds of the galaxy model: the largest galaxy, and the number of
\* operations after the generation
MaxGalaxySize == 4
MaxGalaxyOps == 3

\* the draws of the random module in the galaxy model
GalaxySpecDraws(size) ==
    {d \in GalaxyDraws(size) :
        /\ Len(d.warps[1]) = Min(2, size - 1)
        /\ d.ports[1].name = "Sigma Depot"
        /\ d.ports[1].levels["fuel"] = 50}

\* galaxy.to_dict() written to the snapshot
GalaxySave ==
    /\ handled < MaxGalaxyOps
    /\ handled' = handled + 1
    /\ galaxy_file' = Some(Galaxy_to_dict(galaxy))
    /\ UNCHANGED <<galaxy, connected_players, player_state, players_file, next_id, sent,
                   port, wire, links, tasks>>

\* What the record of a sector in a snapshot can turn into: a value that is
\* not a mapping, or a mapping with only some of the keys
DamageKinds == {"nondict", "neighbors", "flags"}

Damaged(rec, kind) ==
    CASE kind = "nondict"   -> NotADict
      [] kind = "neighbors" -> Restrict(rec, {"id", "neighbors"})
      [] kind = "flags"     -> Restrict(rec, {"id", "planet", "stardock"})
      [] kind = "notalist"  -> [rec EXCEPT !.neighbors = NotAList]
      [] kind = "badport"   -> [rec EXCEPT !.port = Some(NotADict)]

\* the record of sector sid in the snapshot is damaged, or removed
GalaxyDamage(sid, kind) ==
    /\ handled < MaxGalaxyOps
    /\ handled' = handled + 1
    /\ ~IsNone(galaxy_file)
    /\ sid \in DOMAIN Val(galaxy_file).sectors
    /\ ~Has(Val(galaxy_file).sectors[sid], "nondict")
    /\ galaxy_file' = Some([Val(galaxy_file) EXCEPT
                               !.sectors[sid] = Damaged(Val(galaxy_file).sectors[sid], kind)])
    /\ UNCHANGED <<galaxy, connected_players, player_state, players_file, next_id, sent,
                   port, wire, links, tasks>>

GalaxyForget(sid) ==
    /\ handled < MaxGalaxyOps
    /\ handled' = handled + 1
    /\ ~IsNone(galaxy_file)
    /\ sid \in DOMAIN Val(galaxy_file).sectors
    /\ galaxy_file' = Some([Val(galaxy_file) EXCEPT
                               !.sectors = Restrict(Val(galaxy_file).sectors,
                                                    DOMAIN Val(galaxy_file).sectors \ {sid})])
    /\ UNCHANGED <<galaxy, connected_players, player_state, players_file, next_id, sent,
                   port, wire, links, tasks>>

\* Galaxy.from_dict(snapshot)
GalaxyLoad(d) ==
    /\ handled < MaxGalaxyOps
    /\ handled' = handled + 1
    /\ ~IsNone(galaxy_file)
    /\ galaxy' = Galaxy_from_dict(Val(galaxy_file), d)
    /\ UNCHANGED <<galaxy_file, connected_players, player_state, players_file, next_id,
                   sent, port, wire, links, tasks>>

InitGalaxy ==
    /\ Idle
    /\ \E size \in 2..MaxGalaxySize : galaxy \in {Galaxy(size, d) : d \in GalaxySpecDraws(size)}
    /\ port = None

NextGalaxy ==
    \/ GalaxySave
    \/ \E sid \in 1..MaxGalaxySize, kind \in DamageKinds : GalaxyDamage(sid, kind)
    \/ \E sid \in 1..MaxGalaxySize : GalaxyForget(sid)
    \/ /\ ~IsNone(galaxy_file)
       /\ \E d \in GalaxySpecDraws(DocSize(Val(galaxy_file))) : GalaxyLoad(d)

SpecGalaxy == InitGalaxy /\ [][NextGalaxy]_vars

\* ------------------------------------------------------------------------
\* The server where sockets close and sends fail
\* ------------------------------------------------------------------------

\* A connection is accepted and handle_connection runs up to the message
\* loop.  The sends of broadcast never raise (gather(return_exceptions=True));
\* the send of the initial SECTOR_UPDATE raises ConnectionClosed when the
\* socket has closed by then, and as it stands before the try statement the
\* exception ends the handler: the link is "failed".
Accept(alive) ==
    /\ next_id <= MaxPlayerId
    /\ Handled(HandleConnect(next_id))
    /\ next_id' = next_id + 1
    /\ links' = Put(links, next_id, IF alive THEN "open" ELSE "failed")
    /\ UNCHANGED <<galaxy, galaxy_file, handled, port, wire, tasks>>

\* the peer closes the socket, or the network fails
SocketCloses(p) ==
    /\ p \in DOMAIN links
    /\ links[p] = "open"
    /\ links' = [links EXCEPT ![p] = "closed"]
    /\ UNCHANGED <<galaxy, galaxy_file, connected_players, player_state, players_file,
                   next_id, sent, handled, port, wire, tasks>>

\* the message loop of p finds the socket closed: except and finally run
Notice(p) ==
    /\ p \in DOMAIN links
    /\ links[p] = "closed"
    /\ Handled(HandleClose(p))
    /\ links' = [links EXCEPT ![p] = "returned"]
    /\ UNCHANGED <<galaxy, galaxy_file, next_id, handled, port, wire, tasks>>

\* packets of a connection whose socket is open
ChatLive(p, msg) ==
    /\ p \in DOMAIN links
    /\ links[p] = "open"
    /\ Event
    /\ Handled(HandleChat(p, msg))
    /\ UNCHANGED <<galaxy, galaxy_file, next_id, port, wire, links, tasks>>

HeartbeatLive(p) ==
    /\ p \in DOMAIN links
    /\ links[p] = "open"
    /\ Event
    /\ Handled(HandleHeartbeat(p))
    /\ UNCHANGED <<galaxy, galaxy_file, next_id, port, wire, links, tasks>>

InitLive ==
    /\ Idle
    /\ galaxy = Galaxy(ServerGalaxySize, CHOOSE d \in ServerDraws : TRUE)
    /\ port = None

NextLive ==
    \/ \E alive \in BOOLEAN : Accept(alive)
    \/ \E p \in 1..MaxPlayerId : SocketCloses(p)
    \/ \E p \in 1..MaxPlayerId : Notice(p)
    \/ \E p \in 1..MaxPlayerId, msg \in ChatInputs : ChatLive(p, msg)
    \/ \E p \in 1..MaxPlayerId : HeartbeatLive(p)

\* the event loop resumes a handler whose socket has closed
SpecLive ==
    InitLive /\ [][NextLive]_vars /\ \A p \in 1..MaxPlayerId : WF_vars(Notice(p))

\* ------------------------------------------------------------------------
\* The packet codec on its own: packets are encoded, texts arrive from the
\* peer, and what is on the wire is decoded
\* ------------------------------------------------------------------------

MaxMembers == 2

PacketTypeInputs == {Py("str", "CHAT_MESSAGE"), Py("str", HEARTBEAT_PING), Py("str", ""),
                     Py("int", 7), PyNone}

MemberKeys == {Py("str", "text"), Py("str", "1"), Py("int", 1), Py("tuple", <<>>)}

MemberValues ==
    {PyNone, Py("bool", TRUE), Py("int", 0), Py("str", "hi"),
     Py("list", <<Py("int", 1), Py("str", "a")>>),
     Py("tuple", <<Py("int", 1), Py("int", 2)>>),
     Py("dict", <<<<Py("str", "k"), Py("int", 1)>>>>),
     Py("dict", <<<<Py("int", 2), PyNone>>>>),
     Py("set", <<>>)}

\* the dicts of at most MaxMembers members
Dicts ==
    {Py("dict", items) : items \in
        {m \in UNION {[1..n -> MemberKeys \X MemberValues] : n \in 0..MaxMembers} :
            \A i, k \in DOMAIN m : i # k => m[i][1] # m[k][1]}}

PayloadInputs == Dicts \cup {PyNone, Py("list", <<>>), Py("str", "{}")}

Member(name, doc) == <<name, doc>>

\* texts a peer can put on the wire
RawInputs ==
    {NotJson, NotText}
    \cup {Text(doc) : doc \in
            {Js("null", <<>>), Js("number", 1), Js("string", "PING"), Js("array", <<>>),
             Js("object", <<>>),
             Js("object", <<Member("type", Js("string", "CHAT_MESSAGE"))>>),
             Js("object", <<Member("payload", Js("object", <<>>))>>),
             Js("object", <<Member("type", Js("number", 3)),
                            Member("payload", Js("object", <<>>))>>),
             Js("object", <<Member("type", Js("string", "CHAT_MESSAGE")),
                            Member("payload", Js("null", <<>>))>>),
             Js("object", <<Member("type", Js("string", "CHAT_MESSAGE")),
                            Member("payload", Js("array", <<>>))>>),
             Js("object", <<Member("type", Js("string", "")),
                            Member("payload", Js("object", <<>>))>>),
             Js("object", <<Member("type", Js("string", HEARTBEAT_PING)),
                            Member("payload", Js("object", <<>>)),
                            Member("seq", Js("number", 1))>>),
             Js("object", <<Member("type", Js("string", "CHAT_MESSAGE")),
                            Member("payload", Js("object", <<>>)),
                            Member("type", Js("null", <<>>))>>)}}

\* encode_packet(packet_type, payload); the text it returns goes on the wire
Encode(packet_type, payload) ==
    /\ wire' = Some([packet_type |-> Some(packet_type),
                     payload     |-> Some(payload),
                     encoded     |-> Some(encode_packet(packet_type, payload)),
                     raw         |-> encode_packet(packet_type, payload).value,
                     decoded     |-> None])
    /\ UNCHANGED <<galaxy, galaxy_file, connected_players, player_state, players_file,
                   next_id, sent, handled, port, links, tasks>>

\* a text of the peer is on the wire
Inject(raw) ==
    /\ wire' = Some([packet_type |-> None, payload |-> None, encoded |-> None,
                     raw |-> Some(raw), decoded |-> None])
    /\ UNCHANGED <<galaxy, galaxy_file, connected_players, player_state, players_file,
                   next_id, sent, handled, port, links, tasks>>

\* decode_packet(raw) of what is on the wire
Deliver ==
    /\ ~IsNone(wire)
    /\ ~IsNone(Val(wire).raw)
    /\ IsNone(Val(wire).decoded)
    /\ wire' = Some([Val(wire) EXCEPT !.decoded = Some(decode_packet(Val(Val(wire).raw)))])
    /\ UNCHANGED <<galaxy, galaxy_file, connected_players, player_state, players_file,
                   next_id, sent, handled, port, links, tasks>>

InitPackets ==
    /\ Idle
    /\ galaxy = Galaxy(ServerGalaxySize, CHOOSE d \in ServerDraws : TRUE)
    /\ port = None

NextPackets ==
    \/ /\ IsNone(wire)
       /\ \E packet_type \in PacketTypeInputs, payload \in PayloadInputs :
              Encode(packet_type, payload)
    \/ /\ IsNone(wire)
       /\ \E raw \in RawInputs : Inject(raw)
    \/ Deliver

SpecPackets == InitPackets /\ [][NextPackets]_vars

-----------------------------------------------------------------------------
\* Properties of the server.  A property of a handler is stated on every
\* reachable state and every input of the model: what handling the input in
\* that state leaves behind.

Recipients(out) == {out[i].to : i \in 1..Len(out)}

InList(x, list) == \E i \in 1..Len(list) : list[i] = x

\* C2: a PLAYER_MOVE to an existing sector that is in the neighbor list of the
\* mover's current sector sets the mover's sector to the requested one and
\* sends one SECTOR_UPDATE, with the mover's id, the updated record and the
\* data of the new sector, to each registered connection, the mover included.
C2_MoveAccepted ==
    \A p \in connected_players, s \in 1..(ServerGalaxySize + 1) :
        (/\ s \in DOMAIN galaxy.sectors
         /\ InList(s, galaxy.sectors[player_state[p].sector].neighbors))
        => LET o      == HandleMove(p, Some(s))
               target == galaxy.sectors[s]
           IN  /\ o.player_state = [player_state EXCEPT ![p].sector = s]
               /\ o.connected_players = connected_players
               /\ Len(o.sent) = Cardinality(connected_players)
               /\ Recipients(o.sent) = connected_players
               /\ p \in Recipients(o.sent)
               /\ \A i \in 1..Len(o.sent) :
                     /\ o.sent[i].type = "SECTOR_UPDATE"
                     /\ o.sent[i].payload.player_id = p
                     /\ o.sent[i].payload.state = [player_state[p] EXCEPT !.sector = s]
                     /\ o.sent[i].payload.sector_data.id = s
                     /\ o.sent[i].payload.sector_data.neighbors = target.neighbors
                     /\ o.sent[i].payload.sector_data.stardock = target.is_stardock
                     /\ o.sent[i].payload.sector_data.has_port = ~IsNone(target.port)

\* two connections, and the last event was a move to the stardock sector
\* that both of them were told about
C2_Witness ==
    /\ Cardinality(connected_players) = 2
    /\ Len(sent) = 2
    /\ Recipients(sent) = connected_players
    /\ \A i \in 1..2 : /\ sent[i].type = "SECTOR_UPDATE"
                       /\ sent[i].payload.state.sector = STARDOCK_SECTOR
                       /\ player_state[sent[i].payload.player_id].sector = STARDOCK_SECTOR

IsReject(o, p, reason) ==
    /\ o.sent = <<[to |-> p, type |-> "MOVE_REJECT", payload |-> [reason |-> reason]]>>
    /\ o.player_state = player_state
    /\ o.players_file = players_file
    /\ o.connected_players = connected_players

PortOf(p) ==
    IF player_state[p].sector \in DOMAIN galaxy.sectors
    THEN galaxy.sectors[player_state[p].sector].port
    ELSE None

\* the trade requests of the model whose amount is an integer
IntegerTrades == {pl \in TradePayloads : ~PyIntRaises(Get(pl, "amount", 0))}

\* the requests of IntegerTrades for action a with a positive amount of a
\* commodity that the port of p's sector prices
PricedTrades(p, a) ==
    {pl \in IntegerTrades :
        /\ PyUpper(Get(pl, "action", "")) = a
        /\ Get(pl, "amount", 0) > 0
        /\ ~IsNone(PortOf(p))
        /\ PyLower(Get(pl, "good", "")) \in DOMAIN Val(PortOf(p)).prices}

Used(cargo) == cargo.fuel + cargo.ore + cargo.equipment

\* the TRADE_RESULT payload of an outcome that is one packet to p
ResultOf(o) == o.sent[1].payload

\* C1: the record of every connected player (seeded with the default state at
\* connect) has credits >= 0, bank >= 0 and a cargo total within holds,
\* whatever PORT_TRADE and DOCK_ACTION packets were handled.
C1_RecordInvariant ==
    \A p \in connected_players :
        /\ PyGe(player_state[p].credits, 0)
        /\ PyGe(player_state[p].bank, 0)
        /\ DOMAIN player_state[p].cargo = COMMODITIES
        /\ Used(player_state[p].cargo) <= player_state[p].holds

\* C4: a BUY of a positive amount of a commodity the port prices fails with
\* the record unchanged if the cargo total plus the amount exceeds holds, and
\* this is tested before the funds; it fails with the record unchanged if
\* price * amount exceeds credits; otherwise credits go down by price * amount,
\* the cargo of the commodity goes up by amount, and no other field changes.
C4_Buy ==
    \A p \in connected_players : \A pl \in PricedTrades(p, "BUY") :
        LET me     == player_state[p]
            good   == PyLower(pl.good)
            amount == pl.amount
            cost   == Val(PortOf(p)).prices[good] * amount
            o      == HandleTrade(p, pl)
        IN  IF Used(me.cargo) + amount > me.holds
            THEN /\ ~ResultOf(o).success
                 /\ ResultOf(o).message.text = "Not enough cargo space."
                 /\ o.player_state = player_state
            ELSE IF PyGt(cost, me.credits)
            THEN /\ ~ResultOf(o).success
                 /\ ResultOf(o).message.text = "Not enough credits."
                 /\ o.player_state = player_state
            ELSE /\ ResultOf(o).success
                 /\ o.player_state =
                      [player_state EXCEPT ![p].credits = PySub(me.credits, cost),
                                           ![p].cargo[good] = me.cargo[good] + amount]

\* a purchase went through, and a request that exceeds both the free holds
\* and the credits of the buyer can be made
C4_Witness ==
    /\ Len(sent) = 1
    /\ sent[1].type = "TRADE_RESULT"
    /\ sent[1].payload.message.text = "Bought"
    /\ \E pl \in PricedTrades(sent[1].to, "BUY") :
          /\ Used(player_state[sent[1].to].cargo) + pl.amount > player_state[sent[1].to].holds
          /\ PyGt(Val(PortOf(sent[1].to)).prices[PyLower(pl.good)] * pl.amount,
                  player_state[sent[1].to].credits)

\* C5: a SELL of a positive amount of a commodity the port prices fails with
\* the record unchanged if the player holds less than amount of it; otherwise
\* credits go up by price * amount, the cargo of the commodity goes down by
\* amount, and no other field changes.
C5_Sell ==
    \A p \in connected_players : \A pl \in PricedTrades(p, "SELL") :
        LET me     == player_state[p]
            good   == PyLower(pl.good)
            amount == pl.amount
            gain   == Val(PortOf(p)).prices[good] * amount
            o      == HandleTrade(p, pl)
        IN  IF me.cargo[good] < amount
            THEN /\ ~ResultOf(o).success
                 /\ o.player_state = player_state
            ELSE /\ ResultOf(o).success
                 /\ o.player_state =
                      [player_state EXCEPT ![p].credits = PyAdd(me.credits, gain),
                                           ![p].cargo[good] = me.cargo[good] - amount]

\* a sale went through
C5_Witness ==
    /\ Len(sent) = 1
    /\ sent[1].type = "TRADE_RESULT"
    /\ sent[1].payload.message.text = "Sold"
    /\ sent[1].payload.message.amount = 2
    /\ player_state[sent[1].to].cargo.fuel = 0

\* what a TRADE_RESULT shows of the port of p's sector
PortSnapshot(p) ==
    IF IsNone(PortOf(p)) THEN None ELSE Some(Port_to_dict(Val(PortOf(p))))

\* the galaxy as the server generated it at startup
StartupGalaxy == Galaxy(ServerGalaxySize, CHOOSE d \in ServerDraws : TRUE)

\* what C6 says of the outcome o of a trade request of p
TradeFrameKept(p, action, good, amount, o) ==
    /\ (\/ IsNone(PortOf(p))
        \/ amount <= 0
        \/ good \notin DOMAIN Val(PortOf(p)).prices
        \/ action \notin {"INFO", "BUY", "SELL"})
          => /\ ~ResultOf(o).success
             /\ o.player_state = player_state
             /\ ResultOf(o).port = PortSnapshot(p)
    /\ (/\ ~IsNone(PortOf(p))
        /\ good \in DOMAIN Val(PortOf(p)).prices
        /\ amount > 0
        /\ action = "INFO")
          => /\ ResultOf(o).success
             /\ o.player_state = player_state
             /\ ResultOf(o).port = PortSnapshot(p)

\* C6: a trade request with an integer amount fails, with every player record
\* and the port as they were, when the player's sector has no port, when the
\* amount is <= 0, when the port does not price the commodity, or when the
\* action is none of INFO, BUY, SELL; an INFO request for a positive amount
\* of a priced commodity succeeds and changes nothing either.
C6_TradeFrame ==
    /\ galaxy = StartupGalaxy
    /\ \A p \in connected_players : \A pl \in IntegerTrades :
          TradeFrameKept(p, PyUpper(Get(pl, "action", "")), PyLower(Get(pl, "good", "")),
                         Get(pl, "amount", 0), HandleTrade(p, pl))

\* a player who holds cargo asked for an action that is no trade action, and
\* was refused
C6_Witness ==
    /\ Len(sent) = 1
    /\ sent[1].type = "TRADE_RESULT"
    /\ ~sent[1].payload.success
    /\ sent[1].payload.message.text = "Unknown trade action"
    /\ Used(player_state[sent[1].to].cargo) > 0

\* C7: every PORT_TRADE packet is answered by exactly one TRADE_RESULT, sent
\* to the requesting connection and to no other, that carries the record of
\* the player as the server now holds it and the snapshot of the port of the
\* player's sector.
C7_OneTradeResult ==
    \A p \in connected_players : \A pl \in TradePayloads :
        LET o == HandleTrade(p, pl)
        IN  /\ Len(o.sent) = 1
            /\ o.sent[1].to = p
            /\ o.sent[1].type = "TRADE_RESULT"
            /\ p \in DOMAIN o.player_state
            /\ ResultOf(o).player_state = o.player_state[p]
            /\ ~IsNone(PortOf(p)) => ResultOf(o).port = PortSnapshot(p)

\* max(5, floor(base * factor)) in exact arithmetic: base * factor is
\* base * (190 - level) / 150 for a commodity the port sells and
\* base * (150 + level) / 150 for one it buys
ExactPrice(mode, c, level) ==
    IF mode = "sell"
    THEN Max(5, (BASE_PRICES[c] * (190 - level)) \div 150)
    ELSE Max(5, (BASE_PRICES[c] * (150 + level)) \div 150)

\* C8: for every port of type 1..3 and every commodity, at the stock level
\* 0..100 the port holds, the price update_prices computes is
\* max(5, floor(base * factor)), with factor 0.6 + (100 - level)/150 for a
\* commodity the port sells and 1.0 + level/150 for one it buys; a type-2 port
\* with ore level 50 prices ore at 33.
C8_PriceFormula ==
    ~IsNone(port) =>
        LET p        == Val(port)
            computed == update_prices(p.type_id, p.commodity_levels)
        IN  /\ \A c \in COMMODITIES :
                   computed[c] = ExactPrice(PORT_TYPES[p.type_id][c], c, p.commodity_levels[c])
            /\ (p.type_id = 2 /\ p.commodity_levels["ore"] = 50) => computed["ore"] = 33

\* C9: the prices a port stores are the prices update_prices computes from its
\* type_id and its commodity_levels, however the port was obtained:
\* construction without or with commodity levels, restoration from a
\* snapshot, adjust_commodity_level.
C9_PricesFollowLevels ==
    ~IsNone(port) =>
        Val(port).prices = update_prices(Val(port).type_id, Val(port).commodity_levels)

\* C10: in every galaxy of size >= 2, generated or restored from a snapshot,
\* sector 2 is the stardock and has no port, and no sector is both a stardock
\* and the holder of a port.
C10_StardockSector ==
    galaxy.size >= 2 =>
        /\ galaxy.sectors[2].is_stardock
        /\ IsNone(galaxy.sectors[2].port)
        /\ \A sid \in DOMAIN galaxy.sectors :
               ~(galaxy.sectors[sid].is_stardock /\ ~IsNone(galaxy.sectors[sid].port))

\* C11: restoring a galaxy from the snapshot of a galaxy G yields, for every
\* sector, the neighbor list, the port (name, type, commodity levels and
\* prices) or its absence, the stardock flag and the planet field of G.
C11_SnapshotRoundTrip ==
    \A d \in GalaxySpecDraws(galaxy.size) :
        Galaxy_from_dict(Galaxy_to_dict(galaxy), d).sectors = galaxy.sectors

\* the packet in flight was encoded from a non-empty type string and a dict
LegalPacket ==
    /\ ~IsNone(wire)
    /\ ~IsNone(Val(wire).packet_type)
    /\ Val(Val(wire).packet_type).t = "str"
    /\ Val(Val(wire).packet_type).v # ""
    /\ Val(Val(wire).payload).t = "dict"

\* C12: for every non-empty type string t and every mapping payload p,
\* decode_packet(encode_packet(t, p)) yields type t and payload p.
C12_RoundTrip ==
    LegalPacket =>
        /\ Val(Val(wire).encoded).raises = ""
        /\ ~IsNone(Val(wire).decoded) =>
              /\ Val(Val(wire).decoded).raises = ""
              /\ DictGet(Val(Val(Val(wire).decoded).value), "type") = Val(Val(wire).packet_type)
              /\ DictGet(Val(Val(Val(wire).decoded).value), "payload") = Val(Val(wire).payload)

\* the value of the field of a JSON object that a reader of the text sees:
\* that of the last member of that name
JsonField(doc, name) ==
    IF \E i \in DOMAIN doc.v : doc.v[i][1] = name THEN Some(doc.v[LastMember(doc.v, name)][2])
    ELSE None

\* the text is not a packet: not JSON at all, not an object, or the type or
\* the payload field is absent or of the wrong shape
BadRaw(raw) ==
    \/ raw.k # "text"
    \/ raw.doc.j # "object"
    \/ IsNone(JsonField(raw.doc, "type"))
    \/ Val(JsonField(raw.doc, "type")).j # "string"
    \/ IsNone(JsonField(raw.doc, "payload"))
    \/ Val(JsonField(raw.doc, "payload")).j # "object"

Failed(outcome) == outcome.raises # "" /\ outcome.value = <<>>

\* C13: encode_packet fails with an error when the type is empty or not a
\* string or the payload is not a mapping; decode_packet fails with an error
\* when the input is not valid structured data, when the top-level value is
\* not a mapping, or when the type or payload field is absent or of the wrong
\* shape; in no failing case is a packet returned.
C13_CodecErrors ==
    ~IsNone(wire) =>
        /\ (/\ ~IsNone(Val(wire).packet_type)
            /\ \/ Val(Val(wire).packet_type).t # "str"
               \/ Val(Val(wire).packet_type).v = ""
               \/ Val(Val(wire).payload).t # "dict")
           => Failed(Val(Val(wire).encoded)) /\ IsNone(Val(wire).raw)
        /\ (~IsNone(Val(wire).decoded) /\ BadRaw(Val(Val(wire).raw)))
           => Failed(Val(Val(wire).decoded))

\* a text whose payload field is not an object has been refused
C13_Witness ==
    /\ ~IsNone(wire)
    /\ ~IsNone(Val(wire).decoded)
    /\ Val(Val(wire).raw).k = "text"
    /\ Val(Val(wire).raw).doc.j = "object"
    /\ ~IsNone(JsonField(Val(Val(wire).raw).doc, "type"))
    /\ Val(JsonField(Val(Val(wire).raw).doc, "type")).j = "string"
    /\ ~IsNone(JsonField(Val(Val(wire).raw).doc, "payload"))
    /\ Val(JsonField(Val(Val(wire).raw).doc, "payload")).j = "array"
    /\ Failed(Val(Val(wire).decoded))

\* the connections a list of packets sends a packet of the type to
RecipientsOf(type, out) == {out[i].to : i \in {k \in 1..Len(out) : out[k].type = type}}

CountOf(type, out) == Cardinality({k \in 1..Len(out) : out[k].type = type})

\* what a new connection does apart from the announcement: the default record
\* is stored under the new id, the connection is registered, and the one
\* SECTOR_UPDATE of the outcome goes to the new connection
Seeded(o, player_id) ==
    /\ o.player_state = Put(player_state, player_id,
                            [sector |-> 1, credits |-> 1000, holds |-> 100,
                             cargo |-> [fuel |-> 0, ore |-> 0, equipment |-> 0],
                             hull |-> 100, shields |-> 10, bank |-> 0])
    /\ o.connected_players = connected_players \cup {player_id}
    /\ CountOf("SECTOR_UPDATE", o.sent) = 1
    /\ RecipientsOf("SECTOR_UPDATE", o.sent) = {player_id}
    /\ \A i \in 1..Len(o.sent) :
          /\ o.sent[i].type \in {"PLAYER_CONNECT", "SECTOR_UPDATE"}
          /\ o.sent[i].payload.player_id = player_id
          /\ o.sent[i].type = "SECTOR_UPDATE" =>
                /\ o.sent[i].payload.state = o.player_state[player_id]
                /\ o.sent[i].payload.sector_data = serialize_sector(galaxy, 1)

\* C14: a new connection gets the default record (sector 1, credits 1000,
\* holds 100, empty cargo, hull 100, shields 10, bank 0) and is registered; one
\* PLAYER_CONNECT goes to each registered connection, the new one included;
\* the initial SECTOR_UPDATE goes to the new connection only.
C14_Connect ==
    next_id <= MaxPlayerId =>
        /\ Seeded(HandleConnect(next_id), next_id)
        /\ RecipientsOf("PLAYER_CONNECT", HandleConnect(next_id).sent)
              = connected_players \cup {next_id}
        /\ CountOf("PLAYER_CONNECT", HandleConnect(next_id).sent)
              = Cardinality(connected_players) + 1

\* a second connection has been made: both connections were sent the
\* PLAYER_CONNECT and the new one the SECTOR_UPDATE
C14_Witness ==
    /\ Cardinality(connected_players) = 2
    /\ Len(sent) = 3
    /\ RecipientsOf("PLAYER_CONNECT", sent) = connected_players
    /\ \E p \in connected_players :
          /\ RecipientsOf("SECTOR_UPDATE", sent) = {p}
          /\ \A i \in 1..3 : sent[i].payload.player_id = p
          /\ player_state[p] = DefaultPlayer

\* C14 as the claim words it: the PLAYER_CONNECT goes to the other
\* connections, those registered before the new one, and to no one else.
C14_ConnectOthersOnly ==
    next_id <= MaxPlayerId =>
        /\ Seeded(HandleConnect(next_id), next_id)
        /\ RecipientsOf("PLAYER_CONNECT", HandleConnect(next_id).sent) = connected_players

\* every id in use, registered or held in the player records or in the
\* snapshot, was handed out before: the next id is greater than each
IdsBelowCounter ==
    \A p \in connected_players \cup DOMAIN player_state \cup DOMAIN players_file :
        p < next_id

\* a step registers no connection but the one of the id the counter hands
\* out, and then the counter moves on; the counter never goes back
IdsAllocatedInOrder ==
    /\ next_id' >= next_id
    /\ \A p \in connected_players' \ connected_players : p = next_id /\ next_id' = next_id + 1
    /\ \A p \in DOMAIN player_state' \ DOMAIN player_state : p = next_id

\* C15: the ids allocated in one run are strictly increasing and pairwise
\* distinct, each is greater than every id of the snapshot loaded at start,
\* and a session keeps its id; so a session that has disconnected never
\* becomes active again and no new session takes a registered or loaded id.
C15_PlayerIds == [](IdsBelowCounter) /\ [][IdsAllocatedInOrder]_vars

\* the first session has disconnected and the second one is active
C15_Witness ==
    /\ next_id = 3
    /\ connected_players = {2}
    /\ 1 \notin DOMAIN player_state

\* C17: once the connection of a player has closed, the player snapshot on
\* disk holds the last record of that player under the player's id.
C17_RecordKept ==
    \A p \in connected_players :
        /\ p \in DOMAIN HandleClose(p).players_file
        /\ HandleClose(p).players_file[p] = player_state[p]

\* the packet the server decodes when a client sends one of the type with an
\* empty payload
Inbound(type) ==
    Val(decode_packet(Val(encode_packet(Py("str", type), Py("dict", <<>>)).value)).value)

\* C19: a packet of either heartbeat type is taken for a heartbeat; it is
\* answered with one HEARTBEAT_PONG to its sender and with nothing else, and
\* the registry, the player records and the player snapshot stay as they are
\* (the galaxy is no part of what the handler returns).
C19_Heartbeat ==
    /\ \A type \in {"HEARTBEAT_PING", "HEARTBEAT_PONG"} : is_heartbeat(Inbound(type))
    /\ \A p \in connected_players :
          /\ HandleHeartbeat(p).sent = <<[to |-> p, type |-> "HEARTBEAT_PONG", payload |-> <<>>]>>
          /\ HandleHeartbeat(p).connected_players = connected_players
          /\ HandleHeartbeat(p).player_state = player_state
          /\ HandleHeartbeat(p).players_file = players_file

\* a heartbeat was answered while another connection was registered
C19_Witness ==
    /\ Cardinality(connected_players) = 2
    /\ Len(sent) = 1
    /\ sent[1].type = "HEARTBEAT_PONG"
    /\ sent[1].to \in connected_players

\* the result of a stardock service for the record: it succeeds exactly when
\* allowed holds, a success leaves the record after, a failure leaves the
\* record as it was
Serves(action, player, allowed, after) ==
    /\ stardock_process_action(action, <<>>, player, 1).success = allowed
    /\ stardock_process_action(action, <<>>, player, 1).player_state
          = IF allowed THEN after ELSE player

\* C20: REPAIR_HULL succeeds iff hull < 100 and credits >= 150, and takes 150
\* credits and sets hull to min(hull + 10, 100); UPGRADE_SHIELDS succeeds iff
\* credits >= 500, and takes 500 credits and adds 5 shields; EXPAND_CARGO
\* succeeds iff credits >= 5000, and takes 5000 credits and adds 5 holds;
\* RUSTY_DRINKS succeeds iff credits >= 10, and takes 10 credits; a failure
\* leaves the record unchanged and a success changes no other field.
C20_DockServices ==
    \A p \in connected_players :
        /\ Serves("REPAIR_HULL", player_state[p],
                  player_state[p].hull < 100 /\ PyGe(player_state[p].credits, 150),
                  [player_state[p] EXCEPT !.credits = PySub(@, 150),
                                          !.hull = Min(@ + 10, 100)])
        /\ Serves("UPGRADE_SHIELDS", player_state[p], PyGe(player_state[p].credits, 500),
                  [player_state[p] EXCEPT !.credits = PySub(@, 500), !.shields = @ + 5])
        /\ Serves("EXPAND_CARGO", player_state[p], PyGe(player_state[p].credits, 5000),
                  [player_state[p] EXCEPT !.credits = PySub(@, 5000), !.holds = @ + 5])
        /\ Serves("RUSTY_DRINKS", player_state[p], PyGe(player_state[p].credits, 10),
                  [player_state[p] EXCEPT !.credits = PySub(@, 10)])

\* C16: a registered connection whose socket closes or fails, at any point
\* of its life, the sends of the connect notification and of the initial
\* sector snapshot included, is in the end removed from the registry and from
\* the player records; and whenever a connection leaves the registry, a
\* PLAYER_DISCONNECT for its id goes to the connections that remain.
C16_Cleanup ==
    /\ \A p \in 1..MaxPlayerId :
          (p \in DOMAIN links /\ links[p] \in {"closed", "failed"})
              ~> (p \notin connected_players /\ p \notin DOMAIN player_state)
    /\ [][\A p \in connected_players \ connected_players' :
              /\ RecipientsOf("PLAYER_DISCONNECT", sent') = connected_players'
              /\ \A i \in 1..Len(sent') : sent'[i].payload.player_id = p]_vars

\* C18: a broadcast attempts a send to each registered connection, those
\* whose socket has failed included, and the handler that issued it goes on:
\* its connection stays registered and nothing else changes.
C18_Broadcast ==
    \A p \in connected_players, msg \in ChatInputs :
        links[p] = "open" =>
            /\ RecipientsOf("CHAT_MESSAGE", HandleChat(p, msg).sent) = connected_players
            /\ Len(HandleChat(p, msg).sent) = Cardinality(connected_players)
            /\ HandleChat(p, msg).connected_players = connected_players
            /\ HandleChat(p, msg).player_state = player_state
            /\ HandleChat(p, msg).players_file = players_file

\* a chat message was broadcast while the socket of the first connection had
\* failed: the send to it was attempted and the second connection was served
C18_Witness ==
    /\ connected_players = {1, 2}
    /\ links[1] # "open"
    /\ links[2] = "open"
    /\ Len(sent) = 2
    /\ sent[1].to = 1 /\ sent[2].to = 2
    /\ \A i \in 1..2 : sent[i].type = "CHAT_MESSAGE" /\ sent[i].payload.player_id = 2

\* the amounts of the bank and gamble requests looked at: none, too much for
\* a new player, affordable, and the number that compares False with all
BankAmounts == {-5, 0, 600, 2000, NaN}

Bank(action, amount, player) ==
    stardock_process_action(action, [amount |-> amount], player, 1)

\* a bank transfer on the record: it succeeds exactly when allowed, a success
\* keeps the sum of credits and bank and touches nothing else, a failure
\* leaves the record as it was
Transfers(action, amount, player, allowed) ==
    /\ Bank(action, amount, player).success = allowed
    /\ ~allowed => Bank(action, amount, player).player_state = player
    /\ allowed =>
          /\ PyAdd(Bank(action, amount, player).player_state.credits,
                   Bank(action, amount, player).player_state.bank)
                = PyAdd(player.credits, player.bank)
          /\ [Bank(action, amount, player).player_state EXCEPT !.credits = 0, !.bank = 0]
                = [player EXCEPT !.credits = 0, !.bank = 0]

\* C21: BANK_DEPOSIT(amount) succeeds iff amount > 0 and credits >= amount,
\* BANK_WITHDRAW(amount) succeeds iff amount > 0 and bank >= amount; both keep
\* credits + bank, a failed one changes nothing, and a successful deposit of
\* n followed by a withdrawal of n gives back the record as it was.
C21_Bank ==
    \A p \in connected_players, amount \in BankAmounts :
        /\ Transfers("BANK_DEPOSIT", amount, player_state[p],
                     PyGt(amount, 0) /\ PyGe(player_state[p].credits, amount))
        /\ Transfers("BANK_WITHDRAW", amount, player_state[p],
                     PyGt(amount, 0) /\ PyGe(player_state[p].bank, amount))
        /\ Bank("BANK_DEPOSIT", amount, player_state[p]).success =>
              Bank("BANK_WITHDRAW", amount,
                   Bank("BANK_DEPOSIT", amount, player_state[p]).player_state).player_state
                 = player_state[p]

Gamble(amount, player, roll) ==
    stardock_process_action("RUSTY_GAMBLE", [amount |-> amount], player, roll)

\* C22: RUSTY_GAMBLE(amount) with amount <= 0 or amount > credits fails and
\* leaves the record as it was; with 0 < amount <= credits the credits become
\* credits + amount when the roll of 1..100 is at most 50 and credits - amount
\* otherwise, and the bank and every other field stay as they were.
C22_Gamble ==
    \A p \in connected_players, amount \in BankAmounts, roll \in {1, 50, 51, 100} :
        /\ (PyLe(amount, 0) \/ PyGt(amount, player_state[p].credits)) =>
              /\ ~Gamble(amount, player_state[p], roll).success
              /\ Gamble(amount, player_state[p], roll).player_state = player_state[p]
        /\ (PyGt(amount, 0) /\ PyLe(amount, player_state[p].credits)) =>
              Gamble(amount, player_state[p], roll).player_state
                 = [player_state[p] EXCEPT
                       !.credits = IF roll <= 50 THEN @ + amount ELSE @ - amount]

\* a player has won a bet of 600 on 1000 credits
C22_Witness ==
    /\ Len(sent) = 1
    /\ sent[1].type = "DOCK_ACTION"
    /\ sent[1].payload.message = "YOU WON!"
    /\ sent[1].payload.player_state.credits = 1600
    /\ sent[1].payload.player_state.bank = 0
    /\ player_state[sent[1].to] = sent[1].payload.player_state

\* C23: BANK_BALANCE, RUSTY_RUMOR, MARKET_BROWSE and TECH_BROWSE leave the
\* player record as it was, in the result of the stardock and in the records
\* of the server; an action name outside the catalog gives a failure and
\* leaves the record as it was too.
C23_ReadOnlyActions ==
    \A p \in connected_players :
        /\ \A action \in {"BANK_BALANCE", "RUSTY_RUMOR", "MARKET_BROWSE", "TECH_BROWSE"} :
              /\ stardock_process_action(action, <<>>, player_state[p], 1).player_state
                    = player_state[p]
              /\ HandleDockAction(p, [action |-> action], 1).player_state = player_state
        /\ \A action \in {"WARP_CORE", "repair_hull", "BANK", ""} :
              /\ ~stardock_process_action(action, <<>>, player_state[p], 1).success
              /\ stardock_process_action(action, <<>>, player_state[p], 1).player_state
                    = player_state[p]
              /\ HandleDockAction(p, [action |-> action], 1).player_state = player_state

\* the balance was reported to a player who has 600 credits in the bank
C23_Witness ==
    /\ Len(sent) = 1
    /\ sent[1].type = "DOCK_ACTION"
    /\ sent[1].payload.message = "Account summary:"
    /\ sent[1].payload.player_state.bank = 600
    /\ player_state[sent[1].to] = sent[1].payload.player_state

\* C24: a malformed packet or a packet of unrecognized type received on a
\* connection is either answered with a packet to that connection or removes
\* that connection from the registry, and every other session stays registered.
ProtocolError(p) == MalformedPacket(p) \/ UnhandledPacket(p)

AnsweredOrDropped(p) ==
    /\ connected_players \ {p} \subseteq connected_players'
    /\ \/ p \notin connected_players'
       \/ \E i \in 1..Len(sent') : sent'[i].to = p

C24_ProtocolErrors ==
    [][\A p \in connected_players : ProtocolError(p) => AnsweredOrDropped(p)]_vars

\* C25: the server starts whether a snapshot is missing or corrupt: neither
\* load raises, a missing or corrupt galaxy snapshot gives a freshly generated
\* galaxy and a missing or corrupt player snapshot gives the empty player set.
\* The snapshots the server itself has written are among the files tried.
NoSnapshot == {Missing, Corrupt}

C25_Startup ==
    /\ \A f \in NoSnapshot \cup {OnDisk(Text(players_file))} :
          /\ load_players(f).raises = ""
          /\ f \in NoSnapshot => load_players(f) = Return(<<>>)
    /\ \A d \in ServerDraws :
          /\ \A f \in NoSnapshot :
                load_galaxy(f, d) = Return(Galaxy(ServerGalaxySize, d))
          /\ ~IsNone(galaxy_file) =>
                load_galaxy(OnDisk(Text(Val(galaxy_file))), d).raises = ""

-----------------------------------------------------------------------------
\* The asyncio tasks of the process.  A handler runs statement by statement
\* and gives up control only at an await; every action below runs one task
\* from where it is suspended to its next await.  tasks.handlers[p] holds the
\* statements handler p has left for its current message, the await it is
\* suspended on first (empty: it waits for a message in the async for).

MaxSegments == 8

St(line, op, arg) == [line |-> line, op |-> op, arg |-> arg]

Await(line) == St(line, "await", <<>>)

\* the statements that write shared state or a snapshot file
Writes ==
    {"register", "init_state", "set_sector", "store", "save_players",
     "unregister", "drop_state"}

\* handle_connection from the accept to the message loop
connect_program ==
    <<St(341, "register", <<>>), St(344, "init_state", <<>>),
      St(357, "announce", <<>>), Await(357),
      St(363, "greet", <<>>), Await(363)>>

\* the finally block of handle_connection that leaves the record of the player
\* in player_state
close_program_keeps_record ==
    <<St(552, "unregister", <<>>),
      St(554, "save_players", <<>>), St(555, "farewell", <<>>), Await(555),
      St(556, "return", <<>>)>>

\* the finally block of handle_connection
close_program ==
    <<St(552, "unregister", <<>>), St(553, "drop_state", <<>>),
      St(554, "save_players", <<>>), St(555, "farewell", <<>>), Await(555),
      St(556, "return", <<>>)>>

\* a branch that only answers: o is what the handler operator gives
answer_program(line, o) == <<St(line, "send", o.sent), Await(line)>>

\* PLAYER_MOVE with the announcement awaited before save_players is called
move_program_save_last(p, requested) ==
    LET o == HandleMove(p, requested)
    IN  IF p \notin o.connected_players THEN close_program
        ELSE IF o.player_state = player_state THEN answer_program(391, o)
        ELSE <<St(406, "set_sector", Val(requested)), St(409, "update", Val(requested)),
               Await(409), St(407, "save_players", <<>>)>>

\* PLAYER_MOVE
move_program(p, requested) ==
    LET o == HandleMove(p, requested)
    IN  IF p \notin o.connected_players THEN close_program
        ELSE IF o.player_state = player_state THEN answer_program(391, o)
        ELSE <<St(406, "set_sector", Val(requested)), St(407, "save_players", <<>>),
               St(409, "update", Val(requested)), Await(409)>>

\* PORT_TRADE: _do_trade changes the record in place, then save_players
trade_program(p, payload) ==
    LET o == HandleTrade(p, payload)
    IN  IF p \notin o.connected_players THEN close_program
        ELSE <<St(433, "store", o.player_state[p]), St(435, "save_players", <<>>),
               St(437, "send", o.sent), Await(437)>>

\* DOCK_ACTION: save_players only if the action succeeded
dock_program(p, payload, roll) ==
    LET o      == HandleDockAction(p, payload, roll)
        action == PyStrip(Get(payload, "action", ""))
    IN  IF p \notin o.connected_players THEN close_program
        ELSE IF action \in DockMenuInputs THEN answer_program(506, o)
        ELSE <<St(526, "store", o.player_state[p])>>
               \o (IF o.players_file = o.player_state
                   THEN <<St(533, "save_players", <<>>)>> ELSE <<>>)
               \o <<St(536, "send", o.sent), Await(536)>>

\* the shared state a statement works on
Shared ==
    [connected_players |-> connected_players, player_state |-> player_state,
     players_file |-> players_file, sent |-> <<>>, returned |-> FALSE]

Exec(p, st, S) ==
    CASE st.op = "register"     -> [S EXCEPT !.connected_players = @ \cup {p}]
      [] st.op = "init_state"   -> [S EXCEPT !.player_state = Put(@, p, DefaultPlayer)]
      [] st.op = "announce"     ->
            [S EXCEPT !.sent = @ \o broadcast(S.connected_players, "PLAYER_CONNECT",
                                              [player_id |-> p])]
      [] st.op = "greet"        ->
            [S EXCEPT !.sent = @ \o Unicast(p, "SECTOR_UPDATE",
                [player_id |-> p, state |-> S.player_state[p],
                 sector_data |-> serialize_sector(galaxy, START_SECTOR)])]
      [] st.op = "set_sector"   -> [S EXCEPT !.player_state[p].sector = st.arg]
      [] st.op = "store"        -> [S EXCEPT !.player_state[p] = st.arg]
      [] st.op = "save_players" -> [S EXCEPT !.players_file = S.player_state]
      [] st.op = "update"       ->
            [S EXCEPT !.sent = @ \o broadcast(S.connected_players, "SECTOR_UPDATE",
                [player_id |-> p, state |-> S.player_state[p],
                 sector_data |-> serialize_sector(galaxy, st.arg)])]
      [] st.op = "send"         -> [S EXCEPT !.sent = @ \o st.arg]
      [] st.op = "unregister"   -> [S EXCEPT !.connected_players = @ \ {p}]
      [] st.op = "drop_state"   -> [S EXCEPT !.player_state = Remove(@, p)]
      [] st.op = "farewell"     ->
            [S EXCEPT !.sent = @ \o broadcast(S.connected_players, "PLAYER_DISCONNECT",
                                              [player_id |-> p])]
      [] st.op = "return"       -> [S EXCEPT !.returned = TRUE]

\* run p from the head of todo to its next await
RECURSIVE Run(_, _, _)
Run(p, todo, S) ==
    IF Len(todo) = 0 \/ Head(todo).op = "await"
    THEN [shared |-> S, todo |-> todo]
    ELSE Run(p, Tail(todo), Exec(p, Head(todo), S))

\* one segment of a task within the bound, while main serves
Segment ==
    /\ handled < MaxSegments
    /\ handled' = handled + 1

\* the task of p has run to r
Scheduled(p, r) ==
    /\ connected_players' = r.shared.connected_players
    /\ player_state' = r.shared.player_state
    /\ players_file' = r.shared.players_file
    /\ sent' = r.shared.sent
    /\ tasks' = [tasks EXCEPT !.handlers =
                    IF r.shared.returned THEN Remove(@, p) ELSE Put(@, p, r.todo)]

\* serve() starts handle_connection for a new connection
AcceptTask ==
    /\ tasks.main = "serving"
    /\ next_id <= MaxPlayerId
    /\ Segment
    /\ Scheduled(next_id, Run(next_id, connect_program, Shared))
    /\ next_id' = next_id + 1
    /\ UNCHANGED <<galaxy, galaxy_file, port, wire, links>>

Waiting(p) == p \in DOMAIN tasks.handlers /\ Len(tasks.handlers[p]) = 0

\* the handler of p takes a message off its connection
Receive(p, program) ==
    /\ tasks.main = "serving"
    /\ Waiting(p)
    /\ Segment
    /\ Scheduled(p, Run(p, program, Shared))
    /\ UNCHANGED <<galaxy, galaxy_file, next_id, port, wire, links>>

\* the connection of p is closed, by the peer or by the server going down
CloseTask(p) ==
    /\ Waiting(p)
    /\ Segment
    /\ Scheduled(p, Run(p, close_program, Shared))
    /\ UNCHANGED <<galaxy, galaxy_file, next_id, port, wire, links>>

\* what p awaited is done
Resume(p) ==
    /\ p \in DOMAIN tasks.handlers
    /\ Len(tasks.handlers[p]) > 0
    /\ Segment
    /\ Scheduled(p, Run(p, Tail(tasks.handlers[p]), Shared))
    /\ UNCHANGED <<galaxy, galaxy_file, next_id, port, wire, links>>

\* autosave_loop after its sleep: save_galaxy, then save_players; failing
\* names the write that raises OSError ("none": both succeed).  Nothing
\* catches the exception: it ends autosave_loop, the gather of main and
\* asyncio.run
WriteFailures == {"none", "galaxy", "players"}

AutosaveTick(failing) ==
    /\ tasks.main = "serving"
    /\ tasks.autosave = "sleeping"
    /\ Segment
    /\ galaxy_file' = IF failing = "galaxy" THEN galaxy_file
                      ELSE Some(Galaxy_to_dict(galaxy))
    /\ players_file' = IF failing = "none" THEN player_state ELSE players_file
    /\ tasks' = IF failing = "none" THEN tasks
                ELSE [tasks EXCEPT !.main = "failed", !.autosave = "raised"]
    /\ sent' = <<>>
    /\ UNCHANGED <<galaxy, connected_players, player_state, next_id, port, wire, links>>

\* KeyboardInterrupt: asyncio.run cancels main, the handler of __main__ prints
Shutdown ==
    /\ tasks.main = "serving"
    /\ Segment
    /\ tasks' = [tasks EXCEPT !.main = "stopped"]
    /\ sent' = <<>>
    /\ UNCHANGED <<galaxy, galaxy_file, connected_players, player_state, players_file,
                   next_id, port, wire, links>>

TaskMoves == {Some(2), Some(ServerGalaxySize)}

TaskTrades == {[action |-> "buy", good |-> "fuel", amount |-> 2]}

TaskDocks == {[action |-> "BANK_DEPOSIT", amount |-> 600], [action |-> "BANK_BALANCE"]}

InitTasks ==
    /\ Idle
    /\ galaxy = Galaxy(ServerGalaxySize, CHOOSE d \in ServerDraws : TRUE)
    /\ port = None

NextTasks ==
    \/ AcceptTask
    \/ \E p \in DOMAIN tasks.handlers, requested \in TaskMoves :
          Receive(p, move_program(p, requested))
    \/ \E p \in DOMAIN tasks.handlers, payload \in TaskTrades :
          Receive(p, trade_program(p, payload))
    \/ \E p \in DOMAIN tasks.handlers, payload \in TaskDocks :
          Receive(p, dock_program(p, payload, GAMBLE_WIN_CHANCE))
    \/ \E p \in DOMAIN tasks.handlers : CloseTask(p)
    \/ \E p \in DOMAIN tasks.handlers : Resume(p)
    \/ \E failing \in WriteFailures : AutosaveTick(failing)
    \/ Shutdown

SpecTasks == InitTasks /\ [][NextTasks]_vars

\* C26: a write that fails during an autosave tick is not fatal: after the
\* tick the autosave task sleeps until its next tick and main still serves,
\* so that connections are accepted and handled as before.
WriteFails == AutosaveTick("galaxy") \/ AutosaveTick("players")

C26_WriteFailure ==
    [][WriteFails => tasks'.autosave = "sleeping" /\ tasks'.main = "serving"]_vars

\* C27: both snapshot documents are rewritten in full, from the state of the
\* process, on every autosave tick, and a process that has shut down cleanly
\* has written both.
Rewritten ==
    /\ galaxy_file = Some(Galaxy_to_dict(galaxy))
    /\ players_file = player_state

C27_Rewritten ==
    /\ [][AutosaveTick("none") => Rewritten']_vars
    /\ [](tasks.main = "stopped" /\ DOMAIN tasks.handlers = {} => Rewritten)

\* C28: no handler is suspended between the first read and the last write of
\* shared state for one message: wherever another task can run, a suspended
\* handler has no write left, and the segment that takes a connect, a move, a
\* trade, a stardock action or a disconnect applies the whole of what its
\* handler does to the registry, the player records and the player snapshot.
WritesLeft(p) ==
    {i \in 1..Len(tasks.handlers[p]) : tasks.handlers[p][i].op \in Writes}

Applied(o) ==
    /\ connected_players' = o.connected_players
    /\ player_state' = o.player_state
    /\ players_file' = o.players_file

WholeTransactions ==
    /\ AcceptTask => Applied(HandleConnect(next_id))
    /\ \A p \in DOMAIN tasks.handlers :
          /\ CloseTask(p) => Applied(HandleClose(p))
          /\ \A requested \in TaskMoves :
                Receive(p, move_program(p, requested))
                    => Applied(HandleMove(p, requested))
          /\ \A payload \in TaskTrades :
                Receive(p, trade_program(p, payload))
                    => Applied(HandleTrade(p, payload))
          /\ \A payload \in TaskDocks :
                Receive(p, dock_program(p, payload, GAMBLE_WIN_CHANCE))
                    => Applied(HandleDockAction(p, payload, GAMBLE_WIN_CHANCE))

C28_NoTornTransaction ==
    /\ [](\A p \in DOMAIN tasks.handlers : WritesLeft(p) = {})
    /\ [][WholeTransactions]_vars

SuspendedAt(p, line) ==
    /\ p \in DOMAIN tasks.handlers
    /\ Len(tasks.handlers[p]) > 0
    /\ Head(tasks.handlers[p]).line = line

\* a handler suspended in the broadcast of its move while another is
\* suspended in the broadcast of its connect
C28_Witness ==
    \E p, q \in DOMAIN tasks.handlers :
        /\ SuspendedAt(p, 409)
        /\ SuspendedAt(q, 357)
        /\ player_state[p].sector = 2
        /\ players_file = player_state

\* C29: in every reachable state the sector of every connected player's
\* record is the id of a sector that exists in the galaxy.
C29_SectorExists ==
    \A p \in connected_players : sector_exists(galaxy, player_state[p].sector)

\* a connected player whose accepted move has just been announced
C29_Witness ==
    /\ Len(sent) > 0
    /\ sent[1].type = "SECTOR_UPDATE"
    /\ sent[1].payload.player_id \in connected_players
    /\ player_state[sent[1].payload.player_id].sector # START_SECTOR
    /\ sent[1].payload.sector_data.id = player_state[sent[1].payload.player_id].sector

-----------------------------------------------------------------------------
\* Navigation: the server with any freshly generated galaxy of the model's
\* sizes, where players connect and move.

InitMoves ==
    /\ Idle
    /\ \E size \in 3..MaxGalaxySize : galaxy \in {Galaxy(size, d) : d \in GalaxySpecDraws(size)}
    /\ port = None

NextMoves ==
    \/ Connect
    \/ \E p \in connected_players, requested \in MoveInputs : Move(p, requested)

SpecMoves == InitMoves /\ [][NextMoves]_vars

\* C30: is_adjacent(src, dst) is true iff src exists and dst is in the
\* neighbor list of src, and a move to an existing sector is accepted iff the
\* sector is in the neighbor list of the sector the player is in.
NeighborsOf(g, src) ==
    IF ~sector_exists(g, src) THEN {}
    ELSE {serialize_sector(g, src).neighbors[j] :
              j \in DOMAIN serialize_sector(g, src).neighbors}

NotAdjacent(p) == Unicast(p, "MOVE_REJECT", [reason |-> "Sector not adjacent."])

C30_Adjacency ==
    /\ \A src, dst \in 0..(MaxGalaxySize + 1) :
          is_adjacent(galaxy, src, dst)
              <=> (sector_exists(galaxy, src) /\ dst \in NeighborsOf(galaxy, src))
    /\ \A p \in connected_players, dst \in DOMAIN galaxy.sectors :
          IF dst \in NeighborsOf(galaxy, player_state[p].sector)
          THEN HandleMove(p, Some(dst)).player_state[p].sector = dst
          ELSE HandleMove(p, Some(dst)) = Reply(NotAdjacent(p))

\* the only player has moved from the start sector to a sector from which
\* the move back is rejected
C30_Witness ==
    \E p \in connected_players :
        /\ connected_players = {p}
        /\ handled = 2
        /\ player_state[p].sector # START_SECTOR
        /\ sent = broadcast({p}, "SECTOR_UPDATE",
                      [player_id |-> p, state |-> player_state[p],
                       sector_data |-> serialize_sector(galaxy, player_state[p].sector)])
        /\ is_adjacent(galaxy, START_SECTOR, player_state[p].sector)
        /\ HandleMove(p, Some(START_SECTOR)) = Reply(NotAdjacent(p))

-----------------------------------------------------------------------------
\* Fresh galaxies of the sizes at which size // 5 is 1 and 2: Galaxy(size) is
\* constructed and saved, never loaded.

MaxFreshSize == 10

FreshSizes == {5, MaxFreshSize}

FreshDraws(size) ==
    {d \in GalaxyDraws(size) :
        \A i \in 1..size : d.ports[i] = CHOOSE pd \in UniformPortDraws : TRUE}

InitFresh ==
    /\ Idle
    /\ \E size \in FreshSizes : galaxy \in {Galaxy(size, d) : d \in FreshDraws(size)}
    /\ port = None

NextFresh == GalaxySave

SpecFresh == InitFresh /\ [][NextFresh]_vars

\* no element of seq occurs twice
Distinct(seq) == \A i, j \in DOMAIN seq : seq[i] = seq[j] => i = j

PortSectors(g) == {i \in DOMAIN g.sectors : ~IsNone(g.sectors[i].port)}

StardockSectors(g) == {i \in DOMAIN g.sectors : g.sectors[i].is_stardock}

\* C31: in a freshly generated galaxy of size >= 5 every sector has 2 to 4
\* neighbors, pairwise distinct, all of them existing sectors other than the
\* sector itself; exactly max(1, size // 5) sectors hold a port, sector 2 does
\* not, and exactly one sector is the stardock.
C31_FreshGalaxy ==
    /\ galaxy.size >= 5
    /\ DOMAIN galaxy.sectors = 1..galaxy.size
    /\ \A i \in DOMAIN galaxy.sectors :
          /\ Len(galaxy.sectors[i].neighbors) \in 2..4
          /\ Distinct(galaxy.sectors[i].neighbors)
          /\ \A j \in DOMAIN galaxy.sectors[i].neighbors :
                /\ sector_exists(galaxy, galaxy.sectors[i].neighbors[j])
                /\ galaxy.sectors[i].neighbors[j] # i
    /\ Cardinality(PortSectors(galaxy)) = Max(1, galaxy.size \div 5)
    /\ 2 \notin PortSectors(galaxy)
    /\ Cardinality(StardockSectors(galaxy)) = 1

\* a saved fresh galaxy with two ports and a sector of four neighbors
C31_Witness ==
    /\ ~IsNone(galaxy_file)
    /\ Cardinality(PortSectors(galaxy)) = 2
    /\ \E i \in DOMAIN galaxy.sectors : Len(galaxy.sectors[i].neighbors) = 4
    /\ StardockSectors(galaxy) = {STARDOCK_SECTOR}

-----------------------------------------------------------------------------
\* Loading damaged snapshots: a fresh galaxy is saved, records of the
\* snapshot are damaged or dropped, and the snapshot is loaded.

MaxLoadSize == 3

LoadDamageKinds == DamageKinds \cup {"notalist", "badport"}

\* the field a kind of damage works on is in the record
Applies(rec, kind) ==
    /\ ~Has(rec, "nondict")
    /\ kind = "notalist" => Has(rec, "neighbors")
    /\ kind = "badport" => Has(rec, "port")

LoadDraws(size) ==
    {d \in GalaxySpecDraws(size) :
        /\ d.port_sectors = {1}
        /\ d.ports[1] = CHOOSE pd \in UniformPortDraws :
                            pd.name = "Sigma Depot" /\ pd.levels["fuel"] = 50}

LoadDamage(sid, kind) ==
    /\ ~IsNone(galaxy_file)
    /\ sid \in DOMAIN Val(galaxy_file).sectors
    /\ Applies(Val(galaxy_file).sectors[sid], kind)
    /\ GalaxyDamage(sid, kind)

InitLoad ==
    /\ Idle
    /\ galaxy \in {Galaxy(MaxLoadSize, d) : d \in LoadDraws(MaxLoadSize)}
    /\ port = None

NextLoad ==
    \/ GalaxySave
    \/ \E sid \in 1..MaxLoadSize, kind \in LoadDamageKinds : LoadDamage(sid, kind)
    \/ \E sid \in 1..MaxLoadSize : GalaxyForget(sid)
    \/ /\ ~IsNone(galaxy_file)
       /\ \E d \in LoadDraws(MaxLoadSize) : GalaxyLoad(d)

SpecLoad == InitLoad /\ [][NextLoad]_vars

GoodNeighbors(rec) ==
    ~Has(rec, "nondict") /\ Has(rec, "neighbors") /\ rec.neighbors # NotAList

GoodPort(rec) ==
    /\ ~Has(rec, "nondict")
    /\ ~IsNone(Get(rec, "port", None))
    /\ ~Has(Val(rec.port), "nondict")

DamagedDoc(doc, sid, kind) ==
    [doc EXCEPT !.sectors[sid] = Damaged(doc.sectors[sid], kind)]

LoadsAround(doc, sid, bad, d) ==
    LET g     == Galaxy_from_dict(bad, d)
        ref   == Galaxy_from_dict(doc, d)
        fresh == Galaxy(DocSize(bad), d)
        rec   == bad.sectors[sid]
    IN  /\ DOMAIN g.sectors = DOMAIN ref.sectors
        /\ \A other \in DOMAIN g.sectors \ {sid} :
              /\ g.sectors[other] = ref.sectors[other]
              /\ (other \in DOMAIN bad.sectors /\ GoodNeighbors(bad.sectors[other]))
                    => g.sectors[other].neighbors = bad.sectors[other].neighbors
        /\ sid \in DOMAIN g.sectors =>
              /\ IF GoodNeighbors(rec)
                 THEN g.sectors[sid].neighbors = rec.neighbors
                 ELSE g.sectors[sid].neighbors \in {fresh.sectors[sid].neighbors, <<>>}
              /\ IF GoodPort(rec)
                 THEN g.sectors[sid].port = Some(Port_from_dict(Val(rec.port), d.ports[sid]))
                 ELSE g.sectors[sid].port \in {fresh.sectors[sid].port, None}

\* C32: a snapshot in which one sector's record is malformed or partly
\* missing still loads: every other sector comes out as it does without the
\* damage, with the neighbors its record gives, and the affected sector has,
\* for neighbors and for port, what its record still gives or else a default
\* (the value of the fresh galaxy, no neighbors, no port).
C32_DamagedLoad ==
    ~IsNone(galaxy_file) =>
        \A sid \in DOMAIN Val(galaxy_file).sectors, kind \in LoadDamageKinds,
           d \in LoadDraws(MaxLoadSize) :
            Applies(Val(galaxy_file).sectors[sid], kind) =>
                LoadsAround(Val(galaxy_file), sid,
                            DamagedDoc(Val(galaxy_file), sid, kind), d)

\* a galaxy loaded from a snapshot with an unreadable record before a good
\* one: the good record's neighbors are restored, the other sector has none of
\* its record's
C32_Witness ==
    /\ ~IsNone(galaxy_file)
    /\ \E sid, other \in DOMAIN Val(galaxy_file).sectors :
          /\ sid < other
          /\ Has(Val(galaxy_file).sectors[sid], "nondict")
          /\ GoodNeighbors(Val(galaxy_file).sectors[other])
          /\ galaxy.sectors[other].neighbors = Val(galaxy_file).sectors[other].neighbors
          /\ \E d \in LoadDraws(MaxLoadSize) :
                /\ galaxy = Galaxy_from_dict(Val(galaxy_file), d)
                /\ galaxy.sectors[other].neighbors # d.warps[other]

\* the stardock services that change a record
ServiceActions ==
    {"REPAIR_HULL", "UPGRADE_SHIELDS", "EXPAND_CARGO", "BANK_DEPOSIT", "BANK_WITHDRAW",
     "RUSTY_GAMBLE", "RUSTY_DRINKS"}

ServiceRequests ==
    {in \in DockInputs : Get(in.payload, "action", "") \in ServiceActions}

\* C33: a stardock service action changes the record of a player only while
\* the player's sector is the stardock sector.
C33_ServicesAtStardock ==
    \A p \in connected_players, in \in ServiceRequests :
        ~_sector_is_stardock(galaxy, player_state[p].sector)
            => HandleDockAction(p, in.payload, in.roll).player_state[p] = player_state[p]

DockRequests ==
    {in \in DockInputs :
        /\ PyStrip(Get(in.payload, "action", "")) \notin DockMenuInputs
        /\ ~stardock_raises(PyStrip(Get(in.payload, "action", "")), in.payload)}

DockFailureKeeps(p, in) ==
    LET result == stardock_process_action(PyStrip(Get(in.payload, "action", "")),
                                          in.payload, player_state[p], in.roll)
    IN  ~result.success =>
            /\ result.player_state = player_state[p]
            /\ HandleDockAction(p, in.payload, in.roll).player_state = player_state

TradeRequests == {pl \in TradePayloads : ~PyIntRaises(Get(pl, "amount", 0))}

TradeFailureKeeps(p, pl) ==
    LET result == _do_trade(galaxy, player_state[p], PyUpper(Get(pl, "action", "")),
                            PyLower(Get(pl, "good", "")), Get(pl, "amount", 0))
    IN  ~result.success =>
            /\ result.player_state = player_state[p]
            /\ HandleTrade(p, pl).player_state = player_state

\* C34: for every stardock action and every trade, a result with success
\* false leaves the player record exactly as it was before the request.
C34_FailureKeepsRecord ==
    \A p \in connected_players :
        /\ \A in \in DockRequests : DockFailureKeeps(p, in)
        /\ \A pl \in TradeRequests : TradeFailureKeeps(p, pl)

\* the direction PORT_TYPES gives the port of p for a commodity
PortMode(p, good) ==
    PORT_TYPES[Val(Val(_get_sector(galaxy, player_state[p].sector)).port).type_id][good]

TradeFollowsDirection(p, pl) ==
    LET action == PyUpper(Get(pl, "action", ""))
        good   == PyLower(Get(pl, "good", ""))
        result == _do_trade(galaxy, player_state[p], action, good, Get(pl, "amount", 0))
    IN  (result.success /\ action \in {"BUY", "SELL"}) =>
            /\ good \in COMMODITIES
            /\ action = "BUY" => PortMode(p, good) = "sell"
            /\ action = "SELL" => PortMode(p, good) = "buy"

\* C35: a BUY succeeds only for a commodity that the port of the player's
\* sector sells to players under PORT_TYPES[type_id], and a SELL only for a
\* commodity that the port buys from players.
C35_TradeDirection ==
    \A p \in connected_players, pl \in TradeRequests : TradeFollowsDirection(p, pl)

\* what C36 says of a purchase pl of p: if it goes through, the port it shows
\* is the port as it was, and the sale of the same amount of the same
\* commodity that follows goes through, shows the same port, and leaves the
\* record of p as it was before the purchase
RoundTripRestores(p, pl) ==
    LET good   == PyLower(pl.good)
        amount == pl.amount
        bought == _do_trade(galaxy, player_state[p], "BUY", good, amount)
        sold   == _do_trade(galaxy, bought.player_state, "SELL", good, amount)
    IN  bought.success =>
            /\ bought.port = PortSnapshot(p)
            /\ HandleTrade(p, pl).player_state[p] = bought.player_state
            /\ sold.success
            /\ sold.port = PortSnapshot(p)
            /\ sold.player_state = player_state[p]

\* C36: no PORT_TRADE request changes the type, the commodity levels or the
\* prices of a port (every answer shows the port of the galaxy as generated),
\* so a successful BUY of n units followed by a SELL of n units of the same
\* commodity at the same port restores the credits and the cargo of the
\* player exactly.
C36_TradeRoundTrip ==
    \A p \in connected_players :
        /\ \A pl \in IntegerTrades :
              ~IsNone(PortOf(p)) =>
                  /\ PortOf(p) = StartupGalaxy.sectors[player_state[p].sector].port
                  /\ ResultOf(HandleTrade(p, pl)).port = PortSnapshot(p)
        /\ \A pl \in PricedTrades(p, "BUY") : RoundTripRestores(p, pl)

\* a player bought fuel and sold it again: the record is the seeded record
\* and the answer shows the port as generated
C36_Witness ==
    /\ Len(sent) = 1
    /\ sent[1].type = "TRADE_RESULT"
    /\ sent[1].payload.success
    /\ sent[1].payload.message.text = "Sold"
    /\ sent[1].payload.message.good = "fuel"
    /\ sent[1].payload.message.total > 0
    /\ player_state[sent[1].to] = DefaultPlayer
    /\ sent[1].payload.port = PortSnapshot(sent[1].to)

\* a packet of a registered player was handled, its connection stayed, and
\* the record of some player is no longer what it was
RecordChanged ==
    /\ connected_players' = connected_players
    /\ DOMAIN player_state' = DOMAIN player_state
    /\ player_state' # player_state

\* C37: after the server has handled a packet that changed the record of a
\* player (an accepted move, a trade, a stardock action of any outcome), the
\* persisted player-state document equals the player-state mapping in memory.
C37_PersistedAfterChange ==
    [][RecordChanged => players_file' = player_state']_vars

\* C38: in every reachable state of a server that started with an empty
\* player snapshot, the player ids that have a record in memory are the
\* player ids of the connection registry.
C38_RecordsOfRegistered ==
    DOMAIN player_state = connected_players

\* player 1 has come and gone, and player 2 is connected
C38_Witness ==
    /\ connected_players = {2}
    /\ DOMAIN player_state = {2}
    /\ players_file = player_state
    /\ 2 \in DOMAIN tasks.handlers

\* the server handles a packet, a protocol error or the disconnect of the
\* connection of p
EventOf(p) ==
    \/ Disconnect(p)
    \/ MalformedPacket(p)
    \/ UnhandledPacket(p)
    \/ Heartbeat(p)
    \/ DockRequest(p)
    \/ \E requested \in MoveInputs : Move(p, requested)
    \/ \E msg \in ChatInputs : Chat(p, msg)
    \/ \E payload \in TradePayloads : Trade(p, payload)
    \/ \E target \in ScanInputs : Scan(p, target)
    \/ \E in \in DockInputs : DockAction(p, in)

\* every other connection is still registered, with the record it had
OthersKept(p) ==
    \A q \in connected_players \ {p} :
        /\ q \in connected_players'
        /\ q \in DOMAIN player_state'
        /\ player_state'[q] = player_state[q]

\* C39: handling a packet, a protocol error or a disconnect of one connection
\* never changes the player record or the registry entry of another
\* connection, and never ends the message loop of another connection.
C39_OthersUntouched ==
    [][\A p \in connected_players : EventOf(p) => OthersKept(p)]_vars

\* player 1 has left while player 2 was connected: player 2 is told, and is
\* registered with its record
C39_Witness ==
    /\ connected_players = {2}
    /\ DOMAIN player_state = {2}
    /\ player_state[2] = DefaultPlayer
    /\ Len(sent) = 1
    /\ sent[1] = Packet(2, "PLAYER_DISCONNECT", [player_id |-> 1])

\* the DOCK_ACTION requests of the model that ask for REPAIR_HULL
RepairRequests ==
    {in \in DockInputs : PyStrip(Get(in.payload, "action", "")) = "REPAIR_HULL"}

\* C40: in every reachable state of the server the hull of each connected
\* player is between 0 and 100; no operation lowers it below the 100 it is
\* seeded with, so a REPAIR_HULL request never succeeds for any player.
C40_RepairNeverSucceeds ==
    \A p \in connected_players :
        /\ player_state[p].hull \in 0..100
        /\ \A in \in RepairRequests :
              LET o == HandleDockAction(p, in.payload, in.roll)
              IN  /\ Len(o.sent) = 1
                  /\ o.sent[1].type = "DOCK_ACTION"
                  /\ ~o.sent[1].payload.success
                  /\ o.player_state = player_state

\* a player who has spent credits at the stardock asked for a repair and was
\* told that the hull needs none
C40_Witness ==
    /\ Len(sent) = 1
    /\ sent[1].type = "DOCK_ACTION"
    /\ "success" \in DOMAIN sent[1].payload
    /\ ~sent[1].payload.success
    /\ sent[1].payload.message = "Hull integrity at maximum. No repairs needed."
    /\ sent[1].to \in connected_players
    /\ PyLt(player_state[sent[1].to].credits, DefaultPlayer.credits)
    /\ RepairRequests # {}

====
